---- MODULE Spec2Model ----
(***************************************************************************)
(* Message-response pipeline of the doppelganger engine:                   *)
(*   ResponseGenerator  (response_engine/response_generator.py)            *)
(*   IntentClassifier   (response_engine/intent_classifier.py)             *)
(*   ToneMatcher        (response_engine/tone_matcher.py)                  *)
(*   PersonalityEngine  (personality_core/personality_engine.py)           *)
(*   SafetyMonitor, ContentFilter, ConsentManager (safety/)                *)
(*                                                                         *)
(* Texts are sequences of characters (one-character strings; an emoji is   *)
(* one character written as a name in angle brackets), so substring tests, *)
(* lower-casing and the regular expressions are computed on characters as  *)
(* Python computes them.  A coroutine of this code never suspends on a     *)
(* future (every await is on a coroutine that runs to completion, the      *)
(* OpenAI call is synchronous), so one call of a handler is one step.      *)
(***************************************************************************)
EXTENDS Integers, Sequences, FiniteSets, TLC

\* ------------------------------------------------------------------------
\* Characters and text primitives (Python str)
\* ------------------------------------------------------------------------
UPPER == <<"A","B","C","D","E","F","G","H","I","J","K","L","M",
           "N","O","P","Q","R","S","T","U","V","W","X","Y","Z">>
LOWER == <<"a","b","c","d","e","f","g","h","i","j","k","l","m",
           "n","o","p","q","r","s","t","u","v","w","x","y","z">>
DIGITS == {"0","1","2","3","4","5","6","7","8","9"}

Range(f) == {f[i] : i \in DOMAIN f}
UpperSet == Range(UPPER)
LowerSet == Range(LOWER)
IsUpper(c) == c \in UpperSet
IsLower(c) == c \in LowerSet
IsDigit(c) == c \in DIGITS
\* \w of the re module
IsWordChar(c) == IsUpper(c) \/ IsLower(c) \/ IsDigit(c) \/ c = "_"
\* \s of the re module
IsSpace(c) == c \in {" ", "\t", "\n"}

\* str.lower() on one character
LowerOf == [c \in UpperSet |-> LOWER[CHOOSE i \in 1..26 : UPPER[i] = c]]
LowerChar(c) == IF IsUpper(c) THEN LowerOf[c] ELSE c
\* str.lower()
LowerText(s) == [i \in 1..Len(s) |-> LowerChar(s[i])]

\* p in s  (substring test); also re.search of a literal pattern
Contains(s, p) == \E i \in 0..(Len(s) - Len(p)) : \A j \in 1..Len(p) : s[i + j] = p[j]
\* s.startswith(p)
StartsWith(s, p) == Len(p) <= Len(s) /\ \A j \in 1..Len(p) : s[j] = p[j]
\* s.count(c) for a single character c
CountChar(s, c) == Cardinality({i \in 1..Len(s) : s[i] = c})
\* s.isupper(): at least one cased character and no lower-case one
IsUpperText(s) == (\E i \in 1..Len(s) : IsUpper(s[i])) /\ (\A i \in 1..Len(s) : ~IsLower(s[i]))

Min(a, b) == IF a < b THEN a ELSE b

\* ------------------------------------------------------------------------
\* Regular expressions of the form \b item item ... \b, each item a
\* character class with a repetition range (re.search: some match exists)
\* ------------------------------------------------------------------------
InClass(c, cls) ==
    CASE cls = "digit"   -> IsDigit(c)
      [] cls = "sep"     -> IsSpace(c) \/ c = "-"            \* [\s-]
      [] cls = "dash"    -> c = "-"
      [] cls = "upper"   -> IsUpper(c)                        \* [A-Z]
      [] cls = "local"   -> IsUpper(c) \/ IsLower(c) \/ IsDigit(c) \/ c \in {".","_","%","+","-"}
      [] cls = "at"      -> c = "@"
      [] cls = "domain"  -> IsUpper(c) \/ IsLower(c) \/ IsDigit(c) \/ c \in {".","-"}
      [] cls = "dot"     -> c = "."
      [] cls = "tld"     -> IsUpper(c) \/ IsLower(c) \/ c = "|"   \* [A-Z|a-z]
      [] OTHER           -> FALSE

Item(cls, lo, hi) == [cls |-> cls, lo |-> lo, hi |-> hi]
Unbounded == -1

\* positions e such that pat[j..] matches s[i..e-1]
RECURSIVE MatchEnds(_, _, _, _)
MatchEnds(s, i, pat, j) ==
    IF j > Len(pat) THEN {i}
    ELSE LET hi == IF pat[j].hi = Unbounded THEN Len(s) - i + 1
                   ELSE Min(pat[j].hi, Len(s) - i + 1)
             ks == {k \in pat[j].lo..hi : \A t \in i..(i + k - 1) : InClass(s[t], pat[j].cls)}
         IN  UNION {MatchEnds(s, i + k, pat, j + 1) : k \in ks}

\* \b between s[i-1] and s[i]
WordBoundary(s, i) ==
    LET before == i > 1 /\ i - 1 <= Len(s) /\ IsWordChar(s[i - 1])
        after  == i >= 1 /\ i <= Len(s) /\ IsWordChar(s[i])
    IN  before # after

\* re.search(r'\b<pat>\b', s) is not None
Search(s, pat) ==
    \E i \in 1..(Len(s) + 1) :
        /\ WordBoundary(s, i)
        /\ \E e \in MatchEnds(s, i, pat, 1) : WordBoundary(s, e)

\* ------------------------------------------------------------------------
\* IntentClassifier.__init__: the pattern table (every pattern is a literal;
\* r"\?" is the literal character ?)
\* ------------------------------------------------------------------------
\* the categories in the dict's insertion order
IntentOrder == <<"greeting", "question", "request", "compliment", "complaint", "casual", "urgent">>

patterns_greeting == <<
    <<"h","i">>,
    <<"h","e","l","l","o">>,
    <<"h","e","y">>,
    <<"s","u","p">>,
    <<"w","h","a","t","'","s"," ","u","p">>,
    <<"h","o","w","d","y">>,
    <<"g","o","o","d"," ","m","o","r","n","i","n","g">>,
    <<"g","o","o","d"," ","a","f","t","e","r","n","o","o","n">>,
    <<"g","o","o","d"," ","e","v","e","n","i","n","g">>
>>

patterns_question == <<
    <<"?">>,
    <<"w","h","a","t">>,
    <<"h","o","w">>,
    <<"w","h","y">>,
    <<"w","h","e","n">>,
    <<"w","h","e","r","e">>,
    <<"w","h","o">>,
    <<"c","a","n"," ","y","o","u">>,
    <<"c","o","u","l","d"," ","y","o","u">>,
    <<"w","o","u","l","d"," ","y","o","u">>,
    <<"d","o"," ","y","o","u">>
>>

patterns_request == <<
    <<"p","l","e","a","s","e">>,
    <<"c","a","n"," ","y","o","u">>,
    <<"c","o","u","l","d"," ","y","o","u">>,
    <<"w","o","u","l","d"," ","y","o","u"," ","m","i","n","d">>,
    <<"i"," ","n","e","e","d">>,
    <<"i"," ","w","a","n","t">>,
    <<"h","e","l","p"," ","m","e">>,
    <<"a","s","s","i","s","t">>
>>

patterns_compliment == <<
    <<"y","o","u","'","r","e"," ","g","r","e","a","t">>,
    <<"y","o","u","'","r","e"," ","a","w","e","s","o","m","e">>,
    <<"y","o","u","'","r","e"," ","a","m","a","z","i","n","g">>,
    <<"t","h","a","n","k"," ","y","o","u">>,
    <<"t","h","a","n","k","s">>,
    <<"a","p","p","r","e","c","i","a","t","e">>,
    <<"l","o","v","e"," ","i","t">>
>>

patterns_complaint == <<
    <<"p","r","o","b","l","e","m">>,
    <<"i","s","s","u","e">>,
    <<"w","r","o","n","g">>,
    <<"b","r","o","k","e","n">>,
    <<"d","o","e","s","n","'","t"," ","w","o","r","k">>,
    <<"a","n","n","o","y","i","n","g">>,
    <<"f","r","u","s","t","r","a","t","e","d">>,
    <<"a","n","g","r","y">>,
    <<"u","p","s","e","t">>
>>

patterns_casual == <<
    <<"l","o","l">>,
    <<"h","a","h","a">>,
    <<"<grin>">>,
    <<"<joy>">>,
    <<"c","o","o","l">>,
    <<"n","i","c","e">>,
    <<"a","w","e","s","o","m","e">>,
    <<"y","e","a","h">>,
    <<"s","u","r","e">>,
    <<"o","k","a","y">>,
    <<"w","h","a","t","e","v","e","r">>
>>

patterns_urgent == <<
    <<"a","s","a","p">>,
    <<"u","r","g","e","n","t">>,
    <<"e","m","e","r","g","e","n","c","y">>,
    <<"n","o","w">>,
    <<"q","u","i","c","k">>,
    <<"i","m","p","o","r","t","a","n","t">>,
    <<"c","r","i","t","i","c","a","l">>,
    <<"i","m","m","e","d","i","a","t","e","l","y">>
>>

intent_patterns ==
    [greeting |-> patterns_greeting, question |-> patterns_question,
     request |-> patterns_request, compliment |-> patterns_compliment,
     complaint |-> patterns_complaint, casual |-> patterns_casual,
     urgent |-> patterns_urgent]

\* ------------------------------------------------------------------------
\* ContentFilter.__init__
\* ------------------------------------------------------------------------
harmful_patterns == <<
    <<"k","i","l","l"," ","y","o","u","r","s","e","l","f">>,
    <<"c","o","m","m","i","t"," ","s","u","i","c","i","d","e">>,
    <<"s","e","l","f"," ","h","a","r","m">>,
    <<"i"," ","h","a","t","e"," ","y","o","u">>,
    <<"y","o","u","'","r","e"," ","w","o","r","t","h","l","e","s","s">>,
    <<"y","o","u","'","r","e"," ","s","t","u","p","i","d">>,
    <<"r","a","c","i","s","t">>,
    <<"s","e","x","i","s","t">>,
    <<"h","o","m","o","p","h","o","b","i","c">>,
    <<"t","r","a","n","s","p","h","o","b","i","c">>,
    <<"n","a","z","i">>,
    <<"h","i","t","l","e","r">>,
    <<"w","h","i","t","e"," ","s","u","p","r","e","m","a","c","y">>
>>

inappropriate_patterns == <<
    <<"p","o","r","n">>,
    <<"s","e","x">>,
    <<"n","u","d","e">>,
    <<"e","x","p","l","i","c","i","t">>,
    <<"d","r","u","g","s">>,
    <<"c","o","c","a","i","n","e">>,
    <<"h","e","r","o","i","n">>,
    <<"w","e","e","d">>,
    <<"v","i","o","l","e","n","c","e">>,
    <<"m","u","r","d","e","r">>,
    <<"a","s","s","a","u","l","t">>
>>

\* ------------------------------------------------------------------------
\* SafetyMonitor: default settings and the fixed tables of its checks
\* ------------------------------------------------------------------------
DefaultRedlines == {
    <<"p","a","s","s","w","o","r","d","s">>,
    <<"c","r","e","d","i","t"," ","c","a","r","d","s">>,
    <<"s","o","c","i","a","l"," ","s","e","c","u","r","i","t","y">>,
    <<"b","a","n","k"," ","a","c","c","o","u","n","t">>,
    <<"p","e","r","s","o","n","a","l"," ","a","d","d","r","e","s","s">>,
    <<"p","h","o","n","e"," ","n","u","m","b","e","r">>,
    <<"f","a","m","i","l","y"," ","s","e","c","r","e","t","s">>,
    <<"c","o","n","f","i","d","e","n","t","i","a","l"," ","i","n","f","o","r","m","a","t","i","o","n">>,
    <<"t","r","a","d","e"," ","s","e","c","r","e","t","s">>,
    <<"p","r","i","v","a","t","e"," ","k","e","y","s">>
}

DefaultSensitiveTopics == {
    <<"p","o","l","i","t","i","c","s">>,
    <<"r","e","l","i","g","i","o","n">>,
    <<"m","o","n","e","y">>,
    <<"h","e","a","l","t","h">>,
    <<"r","e","l","a","t","i","o","n","s","h","i","p","s">>,
    <<"w","o","r","k"," ","c","o","n","f","l","i","c","t","s">>,
    <<"l","e","g","a","l"," ","i","s","s","u","e","s">>,
    <<"f","a","m","i","l","y"," ","p","r","o","b","l","e","m","s">>
}

risk_phrases == <<
    <<"i"," ","h","a","t","e"," ","y","o","u">>,
    <<"y","o","u","'","r","e"," ","s","t","u","p","i","d">>,
    <<"y","o","u","'","r","e"," ","w","r","o","n","g">>,
    <<"i"," ","d","o","n","'","t"," ","c","a","r","e">>,
    <<"w","h","a","t","e","v","e","r">>,
    <<"i"," ","d","o","n","'","t"," ","w","a","n","t"," ","t","o"," ","t","a","l","k"," ","t","o"," ","y","o","u">>,
    <<"l","e","a","v","e"," ","m","e"," ","a","l","o","n","e">>,
    <<"y","o","u","'","r","e"," ","a","n","n","o","y","i","n","g">>,
    <<"i","'","m"," ","d","o","n","e"," ","w","i","t","h"," ","y","o","u">>,
    <<"g","o","o","d","b","y","e"," ","f","o","r","e","v","e","r">>
>>

\* ------------------------------------------------------------------------
\* PersonalityEngine: fixed texts
\* ------------------------------------------------------------------------
fallback_default == <<
    <<"G","o","t"," ","i","t","!">>,
    <<"S","u","r","e"," ","t","h","i","n","g","!">>,
    <<"M","a","k","e","s"," ","s","e","n","s","e",".">>
>>

fallback_energetic == <<
    <<"Y","E","S","!"," ","<fire>">>,
    <<"A","b","s","o","l","u","t","e","l","y","!"," ","<100>">>,
    <<"L","e","t","'","s"," ","g","o","!"," ","<rocket>">>
>>

fallback_savage == <<
    <<"O","b","v","i","o","u","s","l","y",".">>,
    <<"D","u","h",".">>,
    <<"S","u","r","e",","," ","w","h","a","t","e","v","e","r",".">>
>>

fallback_unhinged == <<
    <<"<dizzy>">>,
    <<"<mindblown>">>,
    <<"<boom>">>
>>

fallback_professional == <<
    <<"U","n","d","e","r","s","t","o","o","d",".">>,
    <<"I","'","l","l"," ","t","a","k","e"," ","c","a","r","e"," ","o","f"," ","t","h","a","t",".">>,
    <<"N","o","t","e","d",".">>
>>

fallback_casual == <<
    <<"C","o","o","l","!">>,
    <<"G","o","t"," ","i","t","!">>,
    <<"S","o","u","n","d","s"," ","g","o","o","d","!">>
>>

NoEngineTestText == <<"P","e","r","s","o","n","a","l","i","t","y"," ","e","n","g","i","n","e"," ","n","o","t"," ","a","v","a","i","l","a","b","l","e">>
NotTrainedText == <<"I","'","m"," ","s","t","i","l","l"," ","l","e","a","r","n","i","n","g"," ","y","o","u","r"," ","p","e","r","s","o","n","a","l","i","t","y","."," ","P","l","e","a","s","e"," ","t","r","a","i","n"," ","m","e"," ","f","i","r","s","t","!">>
GenerationFailedText == <<"S","o","r","r","y",","," ","I","'","m"," ","h","a","v","i","n","g"," ","t","r","o","u","b","l","e"," ","r","e","s","p","o","n","d","i","n","g"," ","r","i","g","h","t"," ","n","o","w",".">>
NoEngineText == <<"I","'","m"," ","s","t","i","l","l"," ","l","e","a","r","n","i","n","g"," ","h","o","w"," ","t","o"," ","r","e","s","p","o","n","d"," ","l","i","k","e"," ","y","o","u","!">>

\* ------------------------------------------------------------------------
\* Messages (Dict[str, Any]).  A field whose key is absent is Missing; a
\* content or context that is no text is NoneValue; a message that is no
\* mapping at all has mapping = FALSE (its other fields are not read).
\* ------------------------------------------------------------------------
MissingKey == "<missing>"
MissingText == <<"<missing>">>
NoneValue == <<"<None>">>

\* dict.get(key, default) for the string-valued keys sender and platform
GetStr(v, default) == IF v = MissingKey THEN default ELSE v
\* dict.get(key, default) for the text-valued keys content and context
GetText(v, default) == IF v = MissingText THEN default ELSE v

\* ------------------------------------------------------------------------
\* IntentClassifier.classify_intent
\* ------------------------------------------------------------------------
\* re.search(pattern, content, re.IGNORECASE) for a literal pattern
PatternMatches(pattern, content) ==
    \E i \in 0..(Len(content) - Len(pattern)) :
        \A j \in 1..Len(pattern) : LowerChar(content[i + j]) = LowerChar(pattern[j])

\* score += 1 for every pattern of the category that matches
IntentScore(category, content) ==
    Cardinality({i \in 1..Len(intent_patterns[category]) :
                    PatternMatches(intent_patterns[category][i], content)})

\* the last key, in insertion order, that carries the maximum
PrimaryIntentLast(scores) ==
    LET best == CHOOSE i \in 1..Len(IntentOrder) :
                    /\ \A j \in 1..Len(IntentOrder) : scores[IntentOrder[j]] <= scores[IntentOrder[i]]
                    /\ \A j \in (i + 1)..Len(IntentOrder) : scores[IntentOrder[j]] < scores[IntentOrder[i]]
    IN  IntentOrder[best]

\* max(intent_scores, key=intent_scores.get): the first key, in insertion
\* order, that carries the maximum
PrimaryIntent(scores) ==
    LET best == CHOOSE i \in 1..Len(IntentOrder) :
                    /\ \A j \in 1..Len(IntentOrder) : scores[IntentOrder[j]] <= scores[IntentOrder[i]]
                    /\ \A j \in 1..(i - 1) : scores[IntentOrder[j]] < scores[IntentOrder[i]]
    IN  IntentOrder[best]

MaxScore(scores) == CHOOSE n \in Range(scores) : \A c \in DOMAIN scores : scores[c] <= n

Emoji == {"<grin>", "<joy>", "<blush>", "<heart>", "<thumbsup>", "<fire>", "<100>",
          "<rocket>", "<dizzy>", "<mindblown>", "<boom>"}

\* the empty dict {}
EmptyDict == [k \in {} |-> 0]

\* the result of the except branch
UnknownIntent ==
    [type |-> "unknown", confidence |-> [num |-> 0, den |-> 3],
     scores |-> EmptyDict, context |-> EmptyDict]

\* a fault is answered like content that matches nothing
classify_intent_no_match(message) ==
    [type |-> "greeting", confidence |-> [num |-> 0, den |-> 3],
     scores |-> [c \in Range(IntentOrder) |-> 0], context |-> EmptyDict]

\* confidence num/den is min(max_score / 3, 1.0)
classify_intent(message) ==
    IF ~message.mapping \/ GetText(message.content, << >>) = NoneValue
    THEN UnknownIntent              \* message.get / content.lower() raised
    ELSE LET content  == LowerText(GetText(message.content, << >>))
             sender   == GetStr(message.sender, "")
             platform == GetStr(message.platform, "")
             scores   == [greeting   |-> IntentScore("greeting", content),
                          question   |-> IntentScore("question", content),
                          request    |-> IntentScore("request", content),
                          compliment |-> IntentScore("compliment", content),
                          complaint  |-> IntentScore("complaint", content),
                          casual     |-> IntentScore("casual", content),
                          urgent     |-> IntentScore("urgent", content)]
         IN  [type |-> PrimaryIntent(scores),
              confidence |-> [num |-> Min(MaxScore(scores), 3), den |-> 3],
              scores |-> scores,
              context |-> [is_question |-> Contains(content, <<"?">>),
                           has_emoji |-> \E i \in 1..Len(content) : content[i] \in Emoji,
                           is_caps |-> IsUpperText(content),
                           length |-> Len(content),
                           platform |-> platform,
                           sender_known |-> sender # ""]]

\* ------------------------------------------------------------------------
\* ToneMatcher
\* ------------------------------------------------------------------------
\* the adjustments of a tone are looked up by the tone's own name
ToneAdjustmentsByName(tone) == IF tone = "neutral" THEN {} ELSE {tone}

\* tone_patterns[tone]["adjustments"]; {} for a tone the table does not hold
ToneAdjustments(tone) ==
    CASE tone = "formal"       -> {"add formality", "use proper grammar", "be respectful"}
      [] tone = "casual"       -> {"be relaxed", "use contractions", "be friendly"}
      [] tone = "professional" -> {"be professional", "be concise", "be clear"}
      [] tone = "friendly"     -> {"be warm", "be supportive", "be encouraging"}
      [] tone = "urgent"       -> {"be quick", "be direct", "be responsive"}
      [] OTHER                 -> {}

\* the context is looked at after the sender, so that it wins over it
determine_tone_context_last(intent, context, sender) ==
    IF context = NoneValue THEN "neutral"
    ELSE
    LET t0 == CASE intent.type = "greeting"  -> "friendly"
                [] intent.type = "question"  -> "helpful"
                [] intent.type = "request"   -> "professional"
                [] intent.type = "complaint" -> "empathetic"
                [] intent.type = "urgent"    -> "urgent"
                [] intent.type = "casual"    -> "casual"
                [] OTHER                     -> "neutral"
        ctx == LowerText(context)
        t1 == IF sender \in {"boss", "manager", "supervisor"} THEN "professional"
              ELSE IF sender \in {"friend", "family", "close"} THEN "casual" ELSE t0
        t2 == IF Contains(ctx, <<"w","o","r","k">>) \/ Contains(ctx, <<"b","u","s","i","n","e","s","s">>)
              THEN "professional"
              ELSE IF Contains(ctx, <<"f","r","i","e","n","d">>) \/ Contains(ctx, <<"f","a","m","i","l","y">>)
                   THEN "friendly" ELSE t1
    IN  t2

determine_tone(intent, context, sender) ==
    IF context = NoneValue THEN "neutral"      \* context.lower() raised
    ELSE
    LET t0 == CASE intent.type = "greeting"  -> "friendly"
                [] intent.type = "question"  -> "helpful"
                [] intent.type = "request"   -> "professional"
                [] intent.type = "complaint" -> "empathetic"
                [] intent.type = "urgent"    -> "urgent"
                [] intent.type = "casual"    -> "casual"
                [] OTHER                     -> "neutral"
        ctx == LowerText(context)
        t1 == IF Contains(ctx, <<"w","o","r","k">>) \/ Contains(ctx, <<"b","u","s","i","n","e","s","s">>)
              THEN "professional"
              ELSE IF Contains(ctx, <<"f","r","i","e","n","d">>) \/ Contains(ctx, <<"f","a","m","i","l","y">>)
                   THEN "friendly" ELSE t0
        t2 == IF sender \in {"boss", "manager", "supervisor"} THEN "professional"
              ELSE IF sender \in {"friend", "family", "close"} THEN "casual" ELSE t1
    IN  t2

\* str.replace(old, new): non-overlapping occurrences, left to right
RECURSIVE ReplaceFrom(_, _, _, _)
ReplaceFrom(s, old, new, i) ==
    IF i > Len(s) THEN << >>
    ELSE IF Len(old) > 0 /\ i + Len(old) - 1 <= Len(s)
            /\ \A j \in 1..Len(old) : s[i + j - 1] = old[j]
         THEN new \o ReplaceFrom(s, old, new, i + Len(old))
         ELSE <<s[i]>> \o ReplaceFrom(s, old, new, i + 1)
Replace(s, old, new) == ReplaceFrom(s, old, new, 1)

apply_tone(response, tone) ==
    IF tone = "neutral" THEN response
    ELSE LET adjustments == ToneAdjustments(tone)
         IN  IF "formal" \in adjustments
             THEN IF ~(\/ StartsWith(response, <<"D","e","a","r">>)
                       \/ StartsWith(response, <<"H","e","l","l","o">>)
                       \/ StartsWith(response, <<"H","i">>))
                  THEN <<"H","e","l","l","o",","," ">> \o response
                  ELSE response
             ELSE IF "casual" \in adjustments
             THEN Replace(Replace(response, <<"H","e","l","l","o">>, <<"H","e","y">>),
                          <<"T","h","a","n","k"," ","y","o","u">>, <<"T","h","a","n","k","s">>)
             ELSE IF "professional" \in adjustments
             THEN IF Contains(LowerText(response), <<"l","o","l">>)
                  THEN Replace(Replace(response, <<"l","o","l">>, << >>), <<"L","O","L">>, << >>)
                  ELSE response
             ELSE IF "friendly" \in adjustments
             THEN IF ~(\E i \in 1..Len(response) : response[i] \in {"<blush>", "<heart>", "<thumbsup>"})
                  THEN response \o <<" ", "<blush>">>
                  ELSE response
             ELSE IF "urgent" \in adjustments
             THEN IF ~Contains(response, <<"!">>) THEN response \o <<"!">> ELSE response
             ELSE response

\* str.strip()
RECURSIVE Strip(_)
Strip(s) ==
    IF s = << >> THEN s
    ELSE IF IsSpace(Head(s)) THEN Strip(Tail(s))
    ELSE IF IsSpace(s[Len(s)]) THEN Strip(SubSeq(s, 1, Len(s) - 1))
    ELSE s

\* responses.get(mood, responses["default"]) of _generate_fallback_response
FallbackTable(mood) ==
    CASE mood = "default"      -> fallback_default
      [] mood = "energetic"    -> fallback_energetic
      [] mood = "savage"       -> fallback_savage
      [] mood = "unhinged"     -> fallback_unhinged
      [] mood = "professional" -> fallback_professional
      [] mood = "casual"       -> fallback_casual
      [] OTHER                 -> fallback_default

\* ------------------------------------------------------------------------
\* Bounds and inputs
\* ------------------------------------------------------------------------
MaxProcess == 1
MaxCheck == 1
MaxConsent == 2
\* both logs keep the last 1000 entries
MaxTrain == 2
MaxTasks == 3
MaxSamples == 1
MaxLog == 1000
\* appends the log specification runs beyond the cap
LogOverrun == 3

ValidMoods == {"default", "energetic", "savage", "unhinged", "professional", "casual"}
MoodInputs == {"savage", "bogus"}
\* apply_tone: the tones, and the texts: every text of at most MaxLen
\* characters over l, o and !, and some phrases the adjustments look for
MaxLen == 6
MaxApply == 2
AllTones == {"friendly", "helpful", "professional", "empathetic", "urgent", "casual",
             "neutral", "formal"}
ToneTexts ==
    UNION {[1..n -> {"l", "o", "!"}] : n \in 0..MaxLen}
    \cup {<<"H","e","l","l","o"," ","l","o","l">>,
          <<"T","h","a","n","k"," ","y","o","u">>,
          <<"D","e","a","r"," ","L","O","L">>,
          <<"o","k"," ","<thumbsup>">>}
TestMoods == {"", "default", "savage", "professional", "bogus", "Savage"}

Msg(sender, platform, content, context) ==
    [mapping |-> TRUE, sender |-> sender, platform |-> platform,
     content |-> content, context |-> context]
\* a message that is a str, not a dict
NotAMapping ==
    [mapping |-> FALSE, sender |-> MissingKey, platform |-> MissingKey,
     content |-> MissingText, context |-> MissingText]

MsgGreeting == Msg("alice", "discord",
                   <<"h","e","y"," ","w","h","a","t","'","s"," ","u","p","!","!">>, << >>)
MsgNoSender == Msg("", "discord", <<"p","l","e","a","s","e"," ","h","e","l","p">>,
                   <<"w","o","r","k">>)
MsgKeyless == Msg(MissingKey, "email", <<"o","k","a","y">>, MissingText)
MsgSms == Msg("bob", "sms", <<"w","h","y","?">>, << >>)
MsgNoneContent == Msg("alice", "slack", NoneValue, << >>)

Messages == {MsgGreeting, MsgNoSender, MsgNoneContent, NotAMapping}
ConsentMessages == Messages \cup {MsgKeyless, MsgSms}
Senders == {"", "alice"}
\* the messages check_response is called with directly
CheckedMessages == {MsgGreeting, MsgNoSender, MsgNoneContent}
Platforms == {"discord"}

TextFine == <<"S","o","u","n","d","s"," ","g","o","o","d",".">>
TextSsn == <<"i","d"," ","1","2","3","-","4","5","-","6","7","8","9">>
TextRedlineTerm == <<"m","y"," ","P","a","s","s","w","o","r","d","s">>
TextInappropriate == <<"s","e","x","y">>
TextWhatever == <<"S","u","r","e",","," ","w","h","a","t","e","v","e","r",".">>
TextHate == <<"I"," ","h","a","t","e"," ","y","o","u">>
TextSsnWhatever == <<"1","2","3","-","4","5","-","6","7","8","9"," ","w","h","a","t","e","v","e","r">>
TextEmail == <<"a","@","b",".","i","o">>
TextShout == <<"Y","E","S","!"," ","<fire>">>

\* what the generation capability may return; GenFails: the call raises
GenFails == <<"<raise>">>
GenOutcomes == {GenFails, TextFine \o <<" ">>, TextSsn}
\* the generation outcomes with the index np.random.choice draws when the
\* call raises (the draw is not made otherwise)
FallbackPicks == {1, 3}
GenInputs == ((GenOutcomes \ {GenFails}) \X {1}) \cup ({GenFails} \X FallbackPicks)
\* the terms add_redline and remove_redline are called with, and the topics
\* of add_sensitive_topic
TermInputs == {<<"W","h","a","t","e","v","e","r">>, <<"P","A","S","S","W","O","R","D","S">>}
TopicInputs == {<<"S","o","u","n","d","s">>}

\* the responses check_response is called with directly
Responses == {TextFine, TextSsn, TextRedlineTerm, TextInappropriate, TextWhatever,
              TextHate, TextSsnWhatever, TextEmail, TextShout}

\* ------------------------------------------------------------------------
\* The pure functions of the pipeline, tabulated over the inputs above
\* ------------------------------------------------------------------------
Tones == {"neutral", "friendly", "helpful", "professional", "empathetic", "urgent", "casual"}
FallbackTexts == UNION {Range(FallbackTable(mood)) : mood \in ValidMoods}
UntonedTexts == Responses \cup FallbackTexts \cup {Strip(g) : g \in GenOutcomes \ {GenFails}}
                \cup {NotTrainedText, GenerationFailedText, NoEngineText}
\* every text a response can be
AllTexts == {apply_tone(t, tone) : t \in UntonedTexts, tone \in Tones}
AllMessages == ConsentMessages

intent_of == [m \in AllMessages |-> classify_intent(m)]

\* the contents classify_intent is called with on its own: one phrase, or two
\* joined by a blank
IntentPhrases ==
    {<<"H","e","y">>, <<"c","a","n"," ","y","o","u">>,
     <<"p","l","e","a","s","e">>, <<"t","h","a","n","k","s">>,
     <<"L","O","L">>, <<"n","o","w">>, <<"?">>, <<"z","z">>,
     <<"w","h","a","t"," ","h","o","w"," ","w","h","y"," ","w","h","e","n">>}
IntentContents ==
    {<< >>} \cup IntentPhrases
            \cup {p \o <<" ">> \o q : p \in IntentPhrases, q \in IntentPhrases}
IntentSenders == {"", "alice"}
IntentPlatforms == {"sms"}
IntentMessages ==
    {Msg(s, p, c, << >>) : s \in IntentSenders, p \in IntentPlatforms, c \in IntentContents}
        \cup {MsgNoneContent, MsgKeyless, NotAMapping}
classified == [m \in IntentMessages |-> classify_intent(m)]

\* the contexts and senders determine_tone is called with on its own
ToneContexts ==
    {<< >>, <<"W","o","r","k"," ","c","h","a","t">>, <<"m","y"," ","f","a","m","i","l","y">>,
     <<"b","u","s","i","n","e","s","s"," ","f","r","i","e","n","d">>,
     NoneValue}
ToneSenders == {"", "boss", "supervisor", "friend", "Boss"}
toned == [t \in UntonedTexts |-> [tone \in Tones |-> apply_tone(t, tone)]]

\* ------------------------------------------------------------------------
\* SafetyMonitor: the four checks.  A reason string is kept as its parts:
\* the prefix check_response puts before it, the fixed wording, and the
\* terms the wording names.
\* ------------------------------------------------------------------------
NoReason == [prefix |-> "", text |-> "", terms |-> {}]
CheckResult(ok, text, terms) == [ok |-> ok, text |-> text, terms |-> terms]

\* the four personal-information patterns of _check_redlines
SsnPattern == <<Item("digit", 3, 3), Item("dash", 1, 1), Item("digit", 2, 2),
                Item("dash", 1, 1), Item("digit", 4, 4)>>
CardPattern == <<Item("digit", 4, 4), Item("sep", 0, 1), Item("digit", 4, 4), Item("sep", 0, 1),
                 Item("digit", 4, 4), Item("sep", 0, 1), Item("digit", 4, 4)>>
PhonePattern == <<Item("digit", 3, 3), Item("sep", 0, 1), Item("digit", 3, 3),
                  Item("sep", 0, 1), Item("digit", 4, 4)>>
EmailPattern == <<Item("local", 1, Unbounded), Item("at", 1, 1), Item("domain", 1, Unbounded),
                  Item("dot", 1, 1), Item("tld", 2, Unbounded)>>
CapsPattern == <<Item("upper", 3, Unbounded)>>

\* the redline terms found in the response; the for loop returns at the
\* first one it meets in the set's iteration order, so the reason names
\* one of them
RedlineTerms == DefaultRedlines \cup {LowerText(t) : t \in TermInputs}
terms_found == [t \in AllTexts |-> {r \in RedlineTerms : Contains(LowerText(t), r)}]
RedlineHits(redlineSet, response) == redlineSet \cap terms_found[response]

\* any(re.search(pattern, response) for pattern in patterns)
HasPersonalInfo(response) ==
    \/ Search(response, SsnPattern)
    \/ Search(response, CardPattern)
    \/ Search(response, PhonePattern)
    \/ Search(response, EmailPattern)

personal_info_found == [t \in AllTexts |-> HasPersonalInfo(t)]

_check_redlines(redlineSet, response) ==
    IF RedlineHits(redlineSet, response) # {}
    THEN CheckResult(FALSE, "Contains redline term", RedlineHits(redlineSet, response))
    ELSE IF personal_info_found[response]
         THEN CheckResult(FALSE, "Contains potential personal information", {})
         ELSE CheckResult(TRUE, "", {})

\* ContentFilter.check_content
PatternsFound(patterns, content) ==
    {patterns[i] : i \in {i \in 1..Len(patterns) : PatternMatches(patterns[i], content)}}

\* the except branch answers a content that is no text (content.lower()
\* raised)
check_content(content) ==
    IF content = NoneValue THEN CheckResult(FALSE, "Content filtering error", {})
    ELSE
    LET harmful_found == PatternsFound(harmful_patterns, content)
        inappropriate_found == PatternsFound(inappropriate_patterns, content)
    IN  IF harmful_found # {}
        THEN CheckResult(FALSE, "Harmful content detected", harmful_found)
        ELSE IF inappropriate_found # {}
             THEN CheckResult(FALSE, "Inappropriate content detected", inappropriate_found)
             ELSE CheckResult(TRUE, "", {})

content_check_of == [t \in AllTexts |-> check_content(t)]

\* ConsentManager.check_consent; ok is the "consented" key
AllowedPlatforms == {"discord", "email", "slack"}

check_consent(contacts, message) ==
    IF ~message.mapping
    THEN CheckResult(FALSE, "Consent check error", {})          \* message.get raised
    ELSE LET sender   == GetStr(message.sender, "")
             platform == GetStr(message.platform, "")
         IN  IF sender \in contacts
             THEN CheckResult(TRUE, "Sender has previously consented", {})
             ELSE IF sender = ""
                  THEN CheckResult(FALSE, "Unknown sender", {})
                  ELSE IF platform \in AllowedPlatforms
                       THEN CheckResult(TRUE, "Platform-based consent", {})
                       ELSE CheckResult(FALSE, "No consent on file for this sender", {})

\* SafetyMonitor._check_relationship_risks
RiskHits(response) ==
    {i \in 1..Len(risk_phrases) : Contains(LowerText(response), risk_phrases[i])}

_check_relationship_risks(response) ==
    IF RiskHits(response) # {}
    THEN LET first == CHOOSE i \in RiskHits(response) : \A j \in RiskHits(response) : i <= j
         IN  CheckResult(FALSE, "Contains relationship risk phrase", {risk_phrases[first]})
    ELSE IF \/ CountChar(response, "!") > 3
            \/ Contains(response, <<"C","A","P","S">>)
            \/ Search(response, CapsPattern)
         THEN CheckResult(FALSE, "Aggressive tone detected", {})
         ELSE CheckResult(TRUE, "", {})

relationship_check_of == [t \in AllTexts |-> _check_relationship_risks(t)]

\* ------------------------------------------------------------------------
\* State
\* ------------------------------------------------------------------------
VARIABLES
    \* ResponseGenerator
    auto_reply_enabled, override_required, current_mood, response_history,
    personality_engine,     \* TRUE when set_personality_engine has attached the engine
    safety_monitor,         \* TRUE when set_safety_monitor has attached the monitor
    \* PersonalityEngine
    trained,
    sentence_model,         \* TRUE once train_personality has built the SentenceTransformer
    personality_profile, style_patterns,
    texts, embeddings,      \* the index: the exemplar texts and their vectors
    built_by,               \* which call last assigned the profile, the style, the index
    \* SafetyMonitor
    redlines, sensitive_topics, safety_events,
    \* ConsentManager
    consented_contacts, consent_history,
    \* datetime.now(): the number of readings taken so far
    clock,
    \* what the latest call returned, the verdict check_response computed in it
    \* (<< >> when it computed none) and the steps it ran, in order
    ret, verdict, calls,
    \* every entry appended to each log since it was last cleared
    all_responses, all_events,
    \* calls made so far, by kind
    nProcess, nCheck, nConsent, nTrain,
    \* the event loop: the coroutines submitted and not yet started, and the
    \* one that holds the loop's thread inside a blocking call (NoTask if none)
    pending, running

vars == <<auto_reply_enabled, override_required, current_mood, response_history,
          personality_engine, safety_monitor, trained, sentence_model,
          personality_profile, style_patterns, texts, embeddings, built_by, redlines,
          sensitive_topics, safety_events,
          consented_contacts, consent_history, clock, ret, verdict, calls,
          all_responses, all_events, nProcess, nCheck, nConsent, nTrain,
          pending, running>>

generatorVars == <<auto_reply_enabled, override_required, current_mood, response_history,
                   personality_engine, safety_monitor>>
consentVars == <<consented_contacts, consent_history>>
monitorSettings == <<redlines, sensitive_topics>>
counters == <<nProcess, nCheck, nConsent, nTrain>>
loopVars == <<pending, running>>
engineVars == <<sentence_model, personality_profile, style_patterns, texts, embeddings,
                built_by>>


\* ------------------------------------------------------------------------
\* The bounded logs
\* ------------------------------------------------------------------------
\* log[-n:]
LastN(log, n) == IF Len(log) > n THEN SubSeq(log, Len(log) - n + 1, Len(log)) ELSE log

\* the slice keeps the oldest entries: log[:1000]
AppendBoundedOldest(log, entry) ==
    LET appended == Append(log, entry)
    IN  IF Len(appended) > MaxLog THEN SubSeq(appended, 1, MaxLog) ELSE appended

\* log.append(entry); if len(log) > 1000: log = log[-1000:]
AppendBounded(log, entry) ==
    LET appended == Append(log, entry)
    IN  IF Len(appended) > MaxLog THEN LastN(appended, MaxLog) ELSE appended

\* text[:n] + "..." if len(text) > n else text
Truncated(text, n) == IF Len(text) > n THEN SubSeq(text, 1, n) \o <<".", ".", ".">> ELSE text

\* ------------------------------------------------------------------------
\* SafetyMonitor.check_response
\* ------------------------------------------------------------------------
CheckOrder == <<"redline", "content", "consent", "relationship">>

ReasonPrefix(check) ==
    CASE check = "redline"      -> "Redline violation"
      [] check = "content"      -> "Content filter"
      [] check = "consent"      -> "Consent issue"
      [] check = "relationship" -> "Relationship risk"

\* the check of that name, on this response and message
RunCheck(check, response, message) ==
    CASE check = "redline"      -> _check_redlines(redlines, response)
      [] check = "content"      -> content_check_of[response]
      [] check = "consent"      -> check_consent(consented_contacts, message)
      [] check = "relationship" -> relationship_check_of[response]

SafeVerdict == [safe |-> TRUE, reason |-> NoReason, confidence |-> 1, flags |-> << >>]

\* one "if not check[...]: ..." block of check_response
ApplyCheck(result, check, outcome) ==
    IF outcome.ok THEN result
    ELSE [result EXCEPT !.safe = FALSE,
                        !.reason = [prefix |-> ReasonPrefix(check), text |-> outcome.text,
                                    terms |-> outcome.terms],
                        !.flags = Append(@, check)]

\* check_response's four blocks from the i-th on: each check is run, whatever
\* the earlier ones found, and folded into the result; ran lists them
RECURSIVE RunChecks(_, _, _, _)
RunChecks(acc, i, response, message) ==
    IF i > Len(CheckOrder) THEN acc
    ELSE RunChecks([result |-> ApplyCheck(acc.result, CheckOrder[i],
                                          RunCheck(CheckOrder[i], response, message)),
                    ran |-> Append(acc.ran, CheckOrder[i])],
                   i + 1, response, message)

\* _log_safety_event raises while it builds the event: original_message.get
\* on a message that is no mapping, len() of a content that is no text
LogEventRaises(message) == ~message.mapping \/ GetText(message.content, << >>) = NoneValue

SafetyEvent(now, response, message, result) ==
    [timestamp |-> now,
     response |-> Truncated(response, 200),
     original_message |-> Truncated(GetText(message.content, << >>), 100),
     sender |-> GetStr(message.sender, "unknown"),
     platform |-> GetStr(message.platform, "unknown"),
     safe |-> result.safe, reason |-> result.reason, flags |-> result.flags]

\* the verdict of the except branch
ErrorVerdict ==
    [safe |-> FALSE, reason |-> [prefix |-> "Safety check error", text |-> "exception", terms |-> {}],
     confidence |-> 0, flags |-> <<"error">>]

\* when the logging step raises, the verdict computed so far is returned
LogSafetyEventOpen(response, message, done) ==
    IF LogEventRaises(message)
    THEN [verdict |-> done.result, steps |-> done.ran \o <<"_log_safety_event">>,
          events |-> << >>]
    ELSE [verdict |-> done.result, steps |-> done.ran \o <<"_log_safety_event">>,
          events |-> <<SafetyEvent(clock + 1, response, message, done.result)>>]

\* check_response as a whole: its verdict, the steps it ran, and the event it
\* appended to safety_events (none when the logging step raised)
LogSafetyEvent(response, message, done) ==
    IF LogEventRaises(message)
    THEN [verdict |-> ErrorVerdict, steps |-> done.ran \o <<"_log_safety_event">>,
          events |-> << >>]
    ELSE [verdict |-> done.result, steps |-> done.ran \o <<"_log_safety_event">>,
          events |-> <<SafetyEvent(clock + 1, response, message, done.result)>>]

check_response(response, message) ==
    LogSafetyEvent(response, message,
                   RunChecks([result |-> SafeVerdict, ran |-> << >>], 1, response, message))

\* ------------------------------------------------------------------------
\* PersonalityEngine.generate_response
\* ------------------------------------------------------------------------
\* the list answers like an empty array
FindSimilarNeverRaises == FALSE

\* _find_similar_responses raises when it asks the initial embeddings, a list,
\* for its size; it does not ask while there is no sentence model
FindSimilarRaises == sentence_model /\ ~embeddings.array

\* gen is what the OpenAI call does (a text, or GenFails), pick the index
\* np.random.choice draws; steps holds "generate" when the call was made and
\* "_generate_fallback_response" when it raised
\* _build_personality_prompt: the base prompt and the modifier of the mood,
\* "" for a mood the table does not hold
mood_modifiers(mood) ==
    CASE mood = "default"      -> ""
      [] mood = "energetic"    -> "Be more enthusiastic and high-energy in your response. "
      [] mood = "savage"       -> "Be more sarcastic and witty. Don't hold back. "
      [] mood = "unhinged"     -> "Be chaotic and unpredictable. Embrace the chaos. "
      [] mood = "professional" -> "Be more formal and business-like. "
      [] mood = "casual"       -> "Be more relaxed and informal. "
      [] OTHER                 -> ""
_build_personality_prompt(mood) ==
    <<"You are responding as the user's digital twin. ", mood_modifiers(mood)>>

\* the fallback phrase is taken from the default table whatever the mood
generate_response_default_table(input_text, context, mood, gen, pick) ==
    IF ~trained THEN [text |-> NotTrainedText, steps |-> << >>]
    ELSE IF FindSimilarRaises THEN [text |-> GenerationFailedText, steps |-> << >>]
    ELSE IF gen = GenFails
         THEN [text |-> FallbackTable("default")[pick],
               steps |-> <<"generate", "_generate_fallback_response">>]
         ELSE [text |-> Strip(gen), steps |-> <<"generate">>]

generate_response(input_text, context, mood, gen, pick) ==
    IF ~trained THEN [text |-> NotTrainedText, steps |-> << >>]
    ELSE IF FindSimilarRaises THEN [text |-> GenerationFailedText, steps |-> << >>]
    ELSE IF gen = GenFails
         THEN [text |-> FallbackTable(mood)[pick],
               steps |-> <<"generate", "_generate_fallback_response">>]
         ELSE [text |-> Strip(gen), steps |-> <<"generate">>]

\* line 131: the response after apply_tone
Toned(reply, tone) == [raised |-> FALSE, text |-> toned[reply.text][tone], steps |-> reply.steps]

\* ResponseGenerator._generate_response; raised: message.get on a message
\* that is no mapping
_generate_response(message, intent, gen, pick) ==
    IF ~personality_engine
    THEN [raised |-> FALSE, text |-> NoEngineText, steps |-> << >>]
    ELSE IF ~message.mapping
    THEN [raised |-> TRUE, text |-> << >>, steps |-> << >>]
    ELSE Toned(generate_response(GetText(message.content, << >>),
                                 GetText(message.context, << >>), current_mood, gen, pick),
               determine_tone(intent, GetText(message.context, << >>),
                              GetStr(message.sender, "")))

\* ------------------------------------------------------------------------
\* ResponseGenerator.process_incoming_message
\* ------------------------------------------------------------------------
\* the returned dict; an absent key is << >>, a present one <<value>>
Returned(action, reason, intent, response, error, message) ==
    [op |-> "process_incoming_message", action |-> action, reason |-> reason,
     intent |-> intent, response |-> response, error |-> error, message |-> message]

\* reason strings of the orchestrator: its own wording, and the safety
\* reason it quotes after "Safety concern: "
OwnReason(text, quoted) == [text |-> text, quoted |-> quoted]

\* the entry _log_response builds
HistoryEntry(now, message, response, intent, platform) ==
    [timestamp |-> now, platform |-> platform, original_message |-> message,
     response |-> response, intent |-> intent, mood |-> current_mood,
     auto_reply |-> auto_reply_enabled]

\* What one call yields: what it returns, the steps it ran, the verdict
\* check_response gave it, and the entries it appended to the two logs.
Outcome(returned, steps, seen, events, entries) ==
    [ret |-> returned, steps |-> steps, verdict |-> seen, events |-> events, entries |-> entries]

\* the override flag is not consulted: every response that gets here is sent
OverrideGateIgnored(message, platform, intent, response, steps, seen, events) ==
    Outcome(Returned("sent", OwnReason("", NoReason),
                     <<intent>>, <<response>>, << >>, message),
            steps \o <<"_send_response", "_log_response">>, seen, events,
            <<HistoryEntry(clock + Len(events) + 1, message, response, intent, platform)>>)

\* lines 76-96: the override check, then _send_response and _log_response
OverrideGate(message, platform, intent, response, steps, seen, events) ==
    IF override_required
    THEN Outcome(Returned("manual_approval", OwnReason("", NoReason),
                          <<intent>>, <<response>>, << >>, message),
                 steps, seen, events, << >>)
    ELSE Outcome(Returned("sent", OwnReason("", NoReason),
                          <<intent>>, <<response>>, << >>, message),
                 steps \o <<"_send_response", "_log_response">>, seen, events,
                 <<HistoryEntry(clock + Len(events) + 1, message, response, intent, platform)>>)

\* the override flag is consulted before the verdict
VerdictGateAfterOverride(message, platform, intent, response, steps, check) ==
    IF override_required
    THEN Outcome(Returned("manual_approval", OwnReason("", NoReason),
                          <<intent>>, <<response>>, << >>, message),
                 steps \o <<"check_response">> \o check.steps, <<check.verdict>>,
                 check.events, << >>)
    ELSE IF ~check.verdict.safe
    THEN Outcome(Returned("manual_review", OwnReason("Safety concern", check.verdict.reason),
                          <<intent>>, <<response>>, << >>, message),
                 steps \o <<"check_response">> \o check.steps, <<check.verdict>>,
                 check.events, << >>)
    ELSE Outcome(Returned("sent", OwnReason("", NoReason),
                          <<intent>>, <<response>>, << >>, message),
                 steps \o <<"check_response">> \o check.steps
                       \o <<"_send_response", "_log_response">>,
                 <<check.verdict>>, check.events,
                 <<HistoryEntry(clock + Len(check.events) + 1, message, response, intent,
                                platform)>>)

\* lines 66-74: the verdict of check_response decides
VerdictGate(message, platform, intent, response, steps, check) ==
    IF ~check.verdict.safe
    THEN Outcome(Returned("manual_review", OwnReason("Safety concern", check.verdict.reason),
                          <<intent>>, <<response>>, << >>, message),
                 steps \o <<"check_response">> \o check.steps, <<check.verdict>>,
                 check.events, << >>)
    ELSE OverrideGate(message, platform, intent, response,
                      steps \o <<"check_response">> \o check.steps, <<check.verdict>>,
                      check.events)

\* the check runs whether or not a monitor was attached
SafetyGateAlwaysChecks(message, platform, intent, reply, steps) ==
    IF reply.raised
    THEN Outcome(Returned("error", OwnReason("", NoReason), << >>, << >>,
                          <<"AttributeError">>, message),
                 steps, << >>, << >>, << >>)
    ELSE VerdictGate(message, platform, intent, reply.text, steps \o reply.steps,
                     check_response(reply.text, message))

\* an exception of _generate_response is not noticed: its (empty) text goes on
SafetyGateBlind(message, platform, intent, reply, steps) ==
    IF safety_monitor
    THEN VerdictGate(message, platform, intent, reply.text, steps \o reply.steps,
                     check_response(reply.text, message))
    ELSE OverrideGate(message, platform, intent, reply.text, steps \o reply.steps,
                      << >>, << >>)

\* lines 62-65: the generated response (or the exception _generate_response
\* raised, which the except branch turns into the error result), then the
\* safety check when a monitor is attached
SafetyGate(message, platform, intent, reply, steps) ==
    IF reply.raised
    THEN Outcome(Returned("error", OwnReason("", NoReason), << >>, << >>,
                          <<"AttributeError">>, message),
                 steps, << >>, << >>, << >>)
    ELSE IF safety_monitor
         THEN VerdictGate(message, platform, intent, reply.text, steps \o reply.steps,
                          check_response(reply.text, message))
         ELSE OverrideGate(message, platform, intent, reply.text, steps \o reply.steps,
                           << >>, << >>)

\* the response is generated before the auto-reply flag is looked at
AutoReplyGateLate(message, platform, gen, pick, intent) ==
    IF ~auto_reply_enabled
    THEN Outcome(Returned("manual_review", OwnReason("Auto-reply disabled", NoReason),
                          <<intent>>, << >>, << >>, message),
                 <<"classify_intent", "_generate_response">>
                     \o _generate_response(message, intent, gen, pick).steps,
                 << >>, << >>, << >>)
    ELSE SafetyGate(message, platform, intent, _generate_response(message, intent, gen, pick),
                    <<"classify_intent", "_generate_response">>)

\* lines 52-62: the auto-reply check
AutoReplyGate(message, platform, gen, pick, intent) ==
    IF ~auto_reply_enabled
    THEN Outcome(Returned("manual_review", OwnReason("Auto-reply disabled", NoReason),
                          <<intent>>, << >>, << >>, message),
                 <<"classify_intent">>, << >>, << >>, << >>)
    ELSE SafetyGate(message, platform, intent, _generate_response(message, intent, gen, pick),
                    <<"classify_intent", "_generate_response">>)

process_incoming_message(message, platform, gen, pick) ==
    AutoReplyGate(message, platform, gen, pick, intent_of[message])

\* the log is written back from a copy that missed the earlier appends
LoggedOverCopy(log, entries) == IF entries = << >> THEN log ELSE <<entries[1]>>

\* a log after the entries of one call (at most one) are appended
Logged(log, entries) == IF entries = << >> THEN log ELSE AppendBounded(log, entries[1])

\* ------------------------------------------------------------------------
\* PersonalityEngine: the profile, the style patterns, the index, training
\* ------------------------------------------------------------------------
\* self.embeddings is a list until _build_embedding_database stores the
\* array encode() returns; only the array has a size
EmptyList == [array |-> FALSE, rows |-> << >>]

\* the calls that assign the profile, the style patterns and the index:
\* __init__, load_model, and the runs of train_personality by number
ByInit == [by |-> "__init__", run |-> 0]
ByLoad == [by |-> "load_model", run |-> 0]
ThisRun == [by |-> "train_personality", run |-> nTrain + 1]

\* the traits _extract_personality_traits starts from and returns when no
\* sample carries a personality
DefaultTraits ==
    [communication_style |-> EmptyDict, humor_type |-> EmptyDict,
     formality_level |-> EmptyDict, energy_level |-> EmptyDict,
     emotional_patterns |-> EmptyDict, interests |-> EmptyDict, values |-> EmptyDict]

\* the patterns _build_style_patterns starts from and returns when no sample
\* has content
DefaultPatterns ==
    [vocabulary |-> EmptyDict, sentence_structure |-> EmptyDict, punctuation |-> EmptyDict,
     emoji_patterns |-> EmptyDict, response_patterns |-> EmptyDict]

\* what a model file written by save_model holds
FileProfile == [DefaultTraits EXCEPT !.humor_type = [primary |-> "sarcastic"]]
FileStyle == [DefaultPatterns EXCEPT !.punctuation = [exclamation |-> 2]]

\* training contents: 10 characters between blanks, 18 characters between
\* blanks
TrainTen == <<" ","0","1","2","3","4","5","6","7","8","9"," ">>
TrainLong == <<" "," ","h","e","l","l","o"," ","t","h","e","r","e"," ","f","r","i","e","n","d"," ">>

\* a training sample: a dict with or without a "personality" key
Sample(content, personality) == [content |-> content, personality |-> personality]

SampleInputs ==
    {Sample(MissingText, FALSE), Sample(TrainTen, FALSE), Sample(TrainLong, FALSE),
     Sample(MissingText, TRUE)}
SampleLists ==
    UNION {[1..n -> SampleInputs] : n \in 0..MaxSamples}

\* whether SentenceTransformer(model_name) can be built, for a call that
\* builds it
BuildOutcomes == IF sentence_model THEN {TRUE} ELSE BOOLEAN

\* the engine's fields as one record
Engine ==
    [sentence_model |-> sentence_model, personality_profile |-> personality_profile,
     style_patterns |-> style_patterns, texts |-> texts, embeddings |-> embeddings,
     built_by |-> built_by, trained |-> trained]

\* _extract_personality_traits reaches Counter, a name the module never
\* imports, as soon as one sample carries a personality
TraitsRaise(samples) == \E i \in 1..Len(samples) : samples[i].personality

\* _build_style_patterns reaches Counter as soon as one sample has content
StyleRaises(samples) ==
    \E i \in 1..Len(samples) : GetText(samples[i].content, << >>) # << >>

\* the contents _build_embedding_database keeps: stripped, longer than 10
RECURSIVE KeptTexts(_)
KeptTexts(samples) ==
    IF samples = << >> THEN << >>
    ELSE (IF /\ GetText(Head(samples).content, << >>) # << >>
             /\ Len(Strip(GetText(Head(samples).content, << >>))) > 10
          THEN <<Strip(GetText(Head(samples).content, << >>))>>
          ELSE << >>) \o KeptTexts(Tail(samples))

\* sentence_model.encode: one vector for each text, the same for the same text
Encode(kept) == [i \in 1..Len(kept) |-> <<"vector of", kept[i]>>]

\* every content is stored, whatever its length
RECURSIVE AllContents(_)
AllContents(samples) ==
    IF samples = << >> THEN << >>
    ELSE <<Strip(GetText(Head(samples).content, << >>))>> \o AllContents(Tail(samples))

_build_embedding_database_unfiltered(engine, samples) ==
    IF ~engine.sentence_model \/ samples = << >>
    THEN engine
    ELSE [engine EXCEPT !.texts = AllContents(samples),
                        !.embeddings = [array |-> TRUE, rows |-> Encode(AllContents(samples))],
                        !.built_by.index = ThisRun]

\* the index is replaced only when the engine has a sentence model and some
\* text is kept
_build_embedding_database(engine, samples) ==
    IF ~engine.sentence_model \/ KeptTexts(samples) = << >>
    THEN engine
    ELSE [engine EXCEPT !.texts = KeptTexts(samples),
                        !.embeddings = [array |-> TRUE, rows |-> Encode(KeptTexts(samples))],
                        !.built_by.index = ThisRun]

\* what train_personality returns, with the fields it leaves in the engine
TrainFailed(engine) == [success |-> FALSE, engine |-> engine]
TrainSucceeded(engine) == [success |-> TRUE, engine |-> [engine EXCEPT !.trained = TRUE]]

\* lines 56-59: the belief matrix catches its own exceptions; then the index
TrainIndex(engine, samples) == TrainSucceeded(_build_embedding_database(engine, samples))

\* lines 52-53
TrainStyle(engine, samples) ==
    IF StyleRaises(samples) THEN TrainFailed(engine)
    ELSE TrainIndex([engine EXCEPT !.style_patterns = DefaultPatterns,
                                   !.built_by.style = ThisRun], samples)

\* lines 49-50
TrainTraits(engine, samples) ==
    IF TraitsRaise(samples) THEN TrainFailed(engine)
    ELSE TrainStyle([engine EXCEPT !.personality_profile = DefaultTraits,
                                   !.built_by.profile = ThisRun], samples)

\* train_personality; loadOk: the SentenceTransformer can be built
train_personality(engine, samples, loadOk) ==
    IF ~engine.sentence_model /\ ~loadOk THEN TrainFailed(engine)
    ELSE TrainTraits([engine EXCEPT !.sentence_model = TRUE], samples)

\* ------------------------------------------------------------------------
\* Initial state: the objects as their constructors leave them
\* ------------------------------------------------------------------------
NoReturn == [op |-> "none"]
NoTask == [kind |-> "none"]

Init ==
    /\ auto_reply_enabled = FALSE
    /\ override_required = FALSE
    /\ current_mood = "default"
    /\ response_history = << >>
    /\ personality_engine = FALSE
    /\ safety_monitor = FALSE
    /\ trained = FALSE
    /\ sentence_model = FALSE
    /\ personality_profile = EmptyDict
    /\ style_patterns = EmptyDict
    /\ texts = << >>
    /\ embeddings = EmptyList
    /\ built_by = [profile |-> ByInit, style |-> ByInit, index |-> ByInit]
    /\ redlines = DefaultRedlines
    /\ sensitive_topics = DefaultSensitiveTopics
    /\ safety_events = << >>
    /\ consented_contacts = {}
    /\ consent_history = << >>
    /\ clock = 0
    /\ ret = NoReturn
    /\ verdict = << >>
    /\ calls = << >>
    /\ all_responses = << >>
    /\ all_events = << >>
    /\ nProcess = 0
    /\ nCheck = 0
    /\ nConsent = 0
    /\ nTrain = 0
    /\ pending = << >>
    /\ running = NoTask

\* ------------------------------------------------------------------------
\* Operations
\* ------------------------------------------------------------------------
\* the state after a call of process_incoming_message with outcome r
Processed(r) ==
    /\ ret' = r.ret
    /\ calls' = r.steps
    /\ verdict' = r.verdict
    /\ safety_events' = Logged(safety_events, r.events)
    /\ all_events' = all_events \o r.events
    /\ response_history' = Logged(response_history, r.entries)
    /\ all_responses' = all_responses \o r.entries
    /\ clock' = clock + Len(r.events) + Len(r.entries)
    /\ nProcess' = nProcess + 1
    /\ UNCHANGED <<auto_reply_enabled, override_required, current_mood,
                   personality_engine, safety_monitor, trained, engineVars, monitorSettings,
                   consentVars, nCheck, nConsent, nTrain>>

ProcessIncomingMessage(message, platform, gen, pick) ==
    /\ Processed(process_incoming_message(message, platform, gen, pick))
    /\ UNCHANGED loopVars

\* a setter returns None and runs no step of the pipeline
Returns(value) == ret' = value /\ verdict' = << >> /\ calls' = << >> /\ UNCHANGED loopVars

EnableAutoReply(enabled) ==
    /\ auto_reply_enabled' = enabled
    /\ Returns(NoReturn)
    /\ UNCHANGED <<override_required, current_mood, response_history, personality_engine,
                   safety_monitor, trained, engineVars, monitorSettings, safety_events, consentVars, clock,
                   all_responses, all_events, counters>>

RequireOverride(required) ==
    /\ override_required' = required
    /\ Returns(NoReturn)
    /\ UNCHANGED <<auto_reply_enabled, current_mood, response_history, personality_engine,
                   safety_monitor, trained, engineVars, monitorSettings, safety_events, consentVars, clock,
                   all_responses, all_events, counters>>

\* an invalid value leaves the mood that was set before
set_mood_keeps(mood) == IF mood \in ValidMoods THEN mood ELSE current_mood

\* ResponseGenerator.set_mood: the mood the call leaves in current_mood
set_mood(mood) == IF mood \in ValidMoods THEN mood ELSE "default"

\* ret records the argument and the mood the call found
SetMood(mood) ==
    /\ current_mood' = set_mood(mood)
    /\ Returns([op |-> "set_mood", mood |-> mood, previous |-> current_mood])
    /\ UNCHANGED <<auto_reply_enabled, override_required, response_history, personality_engine,
                   safety_monitor, trained, engineVars, monitorSettings, safety_events, consentVars, clock,
                   all_responses, all_events, counters>>

SetPersonalityEngine ==
    /\ personality_engine' = TRUE
    /\ Returns(NoReturn)
    /\ UNCHANGED <<auto_reply_enabled, override_required, current_mood, response_history,
                   safety_monitor, trained, engineVars, monitorSettings, safety_events, consentVars, clock,
                   all_responses, all_events, counters>>

SetSafetyMonitor ==
    /\ safety_monitor' = TRUE
    /\ Returns(NoReturn)
    /\ UNCHANGED <<auto_reply_enabled, override_required, current_mood, response_history,
                   personality_engine, trained, engineVars, monitorSettings, safety_events, consentVars, clock,
                   all_responses, all_events, counters>>

ClearHistory ==
    /\ response_history' = << >>
    /\ all_responses' = << >>
    /\ Returns(NoReturn)
    /\ UNCHANGED <<auto_reply_enabled, override_required, current_mood, personality_engine,
                   safety_monitor, trained, engineVars, monitorSettings, safety_events, consentVars, clock,
                   all_events, counters>>

\* PersonalityEngine.load_model: the trained flag is what the file holds
LoadModel(fileTrained) ==
    /\ trained' = fileTrained
    /\ personality_profile' = FileProfile
    /\ style_patterns' = FileStyle
    /\ built_by' = [built_by EXCEPT !.profile = ByLoad, !.style = ByLoad]
    /\ Returns(NoReturn)
    /\ UNCHANGED <<generatorVars, sentence_model, texts, embeddings, nTrain, monitorSettings, safety_events, consentVars, clock,
                   all_responses, all_events, nProcess, nCheck, nConsent>>

\* PersonalityEngine.train_personality; ret records the samples and the
\* fields the call found
Trained(samples, r) ==
    /\ sentence_model' = r.engine.sentence_model
    /\ personality_profile' = r.engine.personality_profile
    /\ style_patterns' = r.engine.style_patterns
    /\ texts' = r.engine.texts
    /\ embeddings' = r.engine.embeddings
    /\ built_by' = r.engine.built_by
    /\ trained' = r.engine.trained
    /\ ret' = [op |-> "train_personality", success |-> r.success, samples |-> samples,
               before |-> Engine]
    /\ verdict' = << >>
    /\ calls' = << >>
    /\ nTrain' = nTrain + 1
    /\ UNCHANGED <<generatorVars, monitorSettings, safety_events, consentVars, clock,
                   all_responses, all_events, nProcess, nCheck, nConsent>>

TrainPersonality(samples, loadOk) ==
    /\ Trained(samples, train_personality(Engine, samples, loadOk))
    /\ UNCHANGED loopVars

\* ConsentManager.add_consent / remove_consent
ConsentRecord(now, sender, platform, action) ==
    [timestamp |-> now, sender |-> sender, platform |-> platform, action |-> action]

AddConsent(sender, platform) ==
    /\ consented_contacts' = consented_contacts \cup {sender}
    /\ consent_history' = Append(consent_history,
                                 ConsentRecord(clock + 1, sender, platform, "consent_granted"))
    /\ clock' = clock + 1
    /\ nConsent' = nConsent + 1
    /\ Returns(NoReturn)
    /\ UNCHANGED <<generatorVars, trained, engineVars, monitorSettings, safety_events,
                   all_responses, all_events, nProcess, nCheck, nTrain>>

\* revoking for a sender that is not opted in leaves no record
RemoveConsentSilent(sender) ==
    /\ consented_contacts' = consented_contacts \ {sender}
    /\ consent_history' = IF sender \in consented_contacts
                          THEN Append(consent_history,
                                      ConsentRecord(clock + 1, sender, MissingKey, "consent_revoked"))
                          ELSE consent_history
    /\ clock' = clock + 1
    /\ nConsent' = nConsent + 1
    /\ Returns(NoReturn)
    /\ UNCHANGED <<generatorVars, trained, engineVars, monitorSettings, safety_events,
                   all_responses, all_events, nProcess, nCheck, nTrain>>

\* the revoke record has no platform key
RemoveConsent(sender) ==
    /\ consented_contacts' = consented_contacts \ {sender}
    /\ consent_history' = Append(consent_history,
                                 ConsentRecord(clock + 1, sender, MissingKey, "consent_revoked"))
    /\ clock' = clock + 1
    /\ nConsent' = nConsent + 1
    /\ Returns(NoReturn)
    /\ UNCHANGED <<generatorVars, trained, engineVars, monitorSettings, safety_events,
                   all_responses, all_events, nProcess, nCheck, nTrain>>

\* SafetyMonitor.check_response called on its own
Checked(response, message, r) ==
    /\ ret' = [op |-> "check_response", response |-> response, message |-> message,
               verdict |-> r.verdict]
    /\ verdict' = <<r.verdict>>
    /\ calls' = r.steps
    /\ safety_events' = Logged(safety_events, r.events)
    /\ all_events' = all_events \o r.events
    /\ clock' = clock + Len(r.events)
    /\ nCheck' = nCheck + 1
    /\ UNCHANGED <<generatorVars, trained, engineVars, monitorSettings, consentVars, all_responses,
                   nProcess, nConsent, nTrain>>

CheckResponse(response, message) ==
    /\ Checked(response, message, check_response(response, message))
    /\ UNCHANGED loopVars

\* ConsentManager.check_consent called on its own
CheckConsent(message) ==
    /\ ret' = [op |-> "check_consent", message |-> message,
               result |-> check_consent(consented_contacts, message)]
    /\ verdict' = << >>
    /\ calls' = <<"check_consent">>
    /\ nCheck' = nCheck + 1
    /\ UNCHANGED <<generatorVars, trained, engineVars, monitorSettings, safety_events, consentVars, clock,
                   all_responses, all_events, nProcess, nConsent, nTrain, loopVars>>

\* ContentFilter.check_content called on its own
CheckContent(content) ==
    /\ ret' = [op |-> "check_content", content |-> content, result |-> check_content(content)]
    /\ verdict' = << >>
    /\ calls' = <<"check_content">>
    /\ nCheck' = nCheck + 1
    /\ UNCHANGED <<generatorVars, trained, engineVars, monitorSettings, safety_events, consentVars, clock,
                   all_responses, all_events, nProcess, nConsent, nTrain, loopVars>>

ClearSafetyHistory ==
    /\ safety_events' = << >>
    /\ all_events' = << >>
    /\ Returns(NoReturn)
    /\ UNCHANGED <<generatorVars, trained, engineVars, monitorSettings, consentVars, clock,
                   all_responses, counters>>

\* ResponseGenerator.generate_test_response; mood "" stands for no mood given.
\* What it returns is the response string alone; ret also records the mood
\* that was passed on and the prompt built from it, when one was built.
TestResponse(mood, used, reply) ==
    /\ ret' = [op |-> "generate_test_response", mood |-> mood, used |-> used,
               response |-> reply.text,
               prompt |-> IF "generate" \in Range(reply.steps)
                          THEN <<_build_personality_prompt(used)>> ELSE << >>,
               flags |-> << >>]
    /\ calls' = reply.steps
    /\ verdict' = << >>
    /\ UNCHANGED <<generatorVars, trained, engineVars, monitorSettings, safety_events, consentVars,
                   clock, all_responses, all_events, counters, loopVars>>

GenerateTestResponse(test_input, context, mood, gen, pick) ==
    IF ~personality_engine
    THEN TestResponse(mood, mood, [text |-> NoEngineTestText, steps |-> << >>])
    ELSE TestResponse(mood, IF mood # "" THEN mood ELSE current_mood,
                      generate_response(test_input, context,
                                        IF mood # "" THEN mood ELSE current_mood, gen, pick))

\* ToneMatcher.apply_tone, applied to what the last application returned; ret
\* keeps the text and the tone it started from, the result of the first
\* application and the result of the latest
ApplyTone ==
    /\ ret.op = "apply_tone"
    /\ ret.times < MaxApply
    /\ ret' = [ret EXCEPT !.times = @ + 1,
                          !.once = IF ret.times = 0 THEN apply_tone(ret.result, ret.tone) ELSE @,
                          !.result = apply_tone(ret.result, ret.tone)]
    /\ calls' = <<"apply_tone">>
    /\ verdict' = << >>
    /\ UNCHANGED <<generatorVars, trained, engineVars, monitorSettings, safety_events, consentVars,
                   clock, all_responses, all_events, counters, loopVars>>

\* IntentClassifier.classify_intent on its own; ret keeps the message and the
\* result
ClassifyIntent(message) ==
    /\ Returns([op |-> "classify_intent", message |-> message, result |-> classified[message]])
    /\ UNCHANGED <<generatorVars, trained, engineVars, monitorSettings, safety_events,
                   consentVars, clock, all_responses, all_events, counters>>

\* ToneMatcher.determine_tone on the intent that was classified last; ret
\* keeps the three arguments and the tone
DetermineTone(context, sender) ==
    /\ ret.op = "classify_intent"
    /\ Returns([op |-> "determine_tone", intent |-> ret.result, context |-> context,
                sender |-> sender, tone |-> determine_tone(ret.result, context, sender)])
    /\ UNCHANGED <<generatorVars, trained, engineVars, monitorSettings, safety_events,
                   consentVars, clock, all_responses, all_events, counters>>

\* SafetyMonitor.add_redline / remove_redline / add_sensitive_topic
AddRedline(term) ==
    /\ redlines' = redlines \cup {LowerText(term)}
    /\ Returns([op |-> "add_redline", term |-> term])
    /\ UNCHANGED <<generatorVars, trained, engineVars, sensitive_topics, safety_events,
                   consentVars, clock, all_responses, all_events, counters>>

RemoveRedline(term) ==
    /\ redlines' = redlines \ {LowerText(term)}
    /\ Returns([op |-> "remove_redline", term |-> term])
    /\ UNCHANGED <<generatorVars, trained, engineVars, sensitive_topics, safety_events,
                   consentVars, clock, all_responses, all_events, counters>>

AddSensitiveTopic(topic) ==
    /\ sensitive_topics' = sensitive_topics \cup {LowerText(topic)}
    /\ Returns([op |-> "add_sensitive_topic", term |-> topic])
    /\ UNCHANGED <<generatorVars, trained, engineVars, redlines, safety_events,
                   consentVars, clock, all_responses, all_events, counters>>

\* ------------------------------------------------------------------------
\* Coroutines on the asyncio event loop.  The loop has one thread.  No await
\* in process_incoming_message or train_personality is on a future or a
\* sleep, so a coroutine the loop has started keeps the thread until it
\* returns; openai.ChatCompletion.create and SentenceTransformer(...) are
\* ordinary blocking calls made on that thread.
\* ------------------------------------------------------------------------
ProcessTask(message, platform) ==
    [kind |-> "process", message |-> message, platform |-> platform, samples |-> << >>]
TrainTask(samples) ==
    [kind |-> "train", message |-> NotAMapping, platform |-> "", samples |-> samples]

TaskMessages == {MsgGreeting, NotAMapping}
TaskSamples == {<< >>, <<Sample(TrainLong, FALSE)>>, <<Sample(MissingText, TRUE)>>}
TaskInputs ==
    {ProcessTask(m, "discord") : m \in TaskMessages} \cup {TrainTask(x) : x \in TaskSamples}

\* the coroutines submitted, started or finished so far
Submitted == Len(pending) + (IF running = NoTask THEN 0 ELSE 1) + nProcess + nTrain

Without(queue, i) == SubSeq(queue, 1, i - 1) \o SubSeq(queue, i + 1, Len(queue))

\* the call reaches openai.ChatCompletion.create
ReachesGeneration(message) ==
    /\ auto_reply_enabled /\ personality_engine /\ message.mapping
    /\ trained /\ ~FindSimilarRaises

\* a caller hands a coroutine to the loop (create_task, gather, a request)
Submit(task) ==
    /\ Submitted < MaxTasks
    /\ pending' = Append(pending, task)
    /\ UNCHANGED <<generatorVars, trained, engineVars, monitorSettings, safety_events, consentVars,
                   clock, ret, verdict, calls, all_responses, all_events, counters, running>>

\* running keeps, with the task, the mood and the auto-reply flag the
\* coroutine has read by then
Blocked(task) ==
    /\ running' = [mood |-> current_mood, auto_reply |-> auto_reply_enabled] @@ task
    /\ UNCHANGED <<generatorVars, trained, engineVars, monitorSettings, safety_events, consentVars,
                   clock, ret, verdict, calls, all_responses, all_events, counters>>

\* the loop starts a process_incoming_message coroutine: it runs to its end,
\* or up to the generation call
StartProcess(i) ==
    /\ running = NoTask
    /\ pending[i].kind = "process"
    /\ pending' = Without(pending, i)
    /\ IF ReachesGeneration(pending[i].message)
       THEN Blocked(pending[i])
       ELSE /\ Processed(process_incoming_message(pending[i].message, pending[i].platform,
                                                  GenFails, 1))
            /\ running' = NoTask

\* the generation call returns or raises, and the coroutine runs to its end
GenerationReturns(gen, pick) ==
    /\ running.kind = "process"
    /\ Processed(process_incoming_message(running.message, running.platform, gen, pick))
    /\ running' = NoTask
    /\ UNCHANGED pending

\* the loop starts a train_personality coroutine: it runs to its end, or up
\* to the construction of the sentence model
StartTrain(i) ==
    /\ running = NoTask
    /\ pending[i].kind = "train"
    /\ pending' = Without(pending, i)
    /\ IF ~sentence_model
       THEN Blocked(pending[i])
       ELSE /\ Trained(pending[i].samples, train_personality(Engine, pending[i].samples, TRUE))
            /\ running' = NoTask

\* SentenceTransformer(model_name) returns or raises, and the coroutine runs
\* to its end
ModelBuilt(loadOk) ==
    /\ running.kind = "train"
    /\ Trained(running.samples, train_personality(Engine, running.samples, loadOk))
    /\ running' = NoTask
    /\ UNCHANGED pending

\* load_model is an ordinary method: it runs when the thread is free
LoadModelOnLoop(fileTrained) == running = NoTask /\ LoadModel(fileTrained)

\* set_mood called from a second thread, whatever the loop's thread is doing
SetMoodAnyThread(mood) == SetMood(mood)

\* set_mood and enable_auto_reply are ordinary methods: they run when the
\* thread is free
SetMoodOnLoop(mood) == running = NoTask /\ SetMood(mood)
EnableAutoReplyOnLoop(enabled) == running = NoTask /\ EnableAutoReply(enabled)

\* ------------------------------------------------------------------------
\* Specifications
\* ------------------------------------------------------------------------
\* the pipeline and its settings
Next ==
    \/ \E m \in Messages, p \in Platforms, g \in GenInputs :
          nProcess < MaxProcess /\ ProcessIncomingMessage(m, p, g[1], g[2])
    \/ \E b \in BOOLEAN : EnableAutoReply(b)
    \/ \E b \in BOOLEAN : RequireOverride(b)
    \/ \E mood \in MoodInputs : SetMood(mood)
    \/ SetPersonalityEngine
    \/ SetSafetyMonitor
    \/ ClearHistory
    \/ \E b \in BOOLEAN : LoadModel(b)

Spec == Init /\ [][Next]_vars

\* the safety monitor and its consent manager, called directly
NextSafety ==
    \/ \E r \in Responses, m \in CheckedMessages :
          nCheck < MaxCheck /\ CheckResponse(r, m)
    \/ \E m \in ConsentMessages : nCheck < MaxCheck /\ CheckConsent(m)
    \/ \E s \in Senders, p \in Platforms : nConsent < MaxConsent /\ AddConsent(s, p)
    \/ \E s \in Senders : nConsent < MaxConsent /\ RemoveConsent(s)
    \/ ClearSafetyHistory

SpecSafety == Init /\ [][NextSafety]_vars

\* the pipeline with its monitor, and the monitor's content filter and
\* consent check called directly
ContentInputs == {TextFine, TextInappropriate, NoneValue}
NextGate ==
    \/ \E m \in Messages, p \in Platforms, g \in GenInputs :
          nProcess < MaxProcess /\ ProcessIncomingMessage(m, p, g[1], g[2])
    \/ \E b \in BOOLEAN : EnableAutoReply(b)
    \/ \E b \in BOOLEAN : RequireOverride(b)
    \/ SetPersonalityEngine
    \/ SetSafetyMonitor
    \/ \E b \in BOOLEAN : LoadModel(b)
    \/ \E m \in ConsentMessages : nCheck < MaxCheck /\ CheckConsent(m)
    \/ \E c \in ContentInputs : nCheck < MaxCheck /\ CheckContent(c)

SpecGate == Init /\ [][NextGate]_vars

\* the safety monitor's settings and its checks
NextRedline ==
    \/ \E r \in Responses, m \in CheckedMessages :
          nCheck < MaxCheck /\ CheckResponse(r, m)
    \/ \E t \in TermInputs : AddRedline(t)
    \/ \E t \in TermInputs : RemoveRedline(t)
    \/ \E t \in TopicInputs : AddSensitiveTopic(t)

SpecRedline == Init /\ [][NextRedline]_vars

\* the two logs past their cap: a generator with auto-reply enabled and the
\* monitor attached answers one message after another
InitLog ==
    /\ auto_reply_enabled = TRUE
    /\ override_required = FALSE
    /\ current_mood = "default"
    /\ response_history = << >>
    /\ personality_engine = FALSE
    /\ safety_monitor = TRUE
    /\ trained = FALSE
    /\ sentence_model = FALSE
    /\ personality_profile = EmptyDict
    /\ style_patterns = EmptyDict
    /\ texts = << >>
    /\ embeddings = EmptyList
    /\ built_by = [profile |-> ByInit, style |-> ByInit, index |-> ByInit]
    /\ redlines = DefaultRedlines
    /\ sensitive_topics = DefaultSensitiveTopics
    /\ safety_events = << >>
    /\ consented_contacts = {}
    /\ consent_history = << >>
    /\ clock = 0
    /\ ret = NoReturn
    /\ verdict = << >>
    /\ calls = << >>
    /\ all_responses = << >>
    /\ all_events = << >>
    /\ nProcess = 0
    /\ nCheck = 0
    /\ nConsent = 0
    /\ nTrain = 0
    /\ pending = << >>
    /\ running = NoTask

NextLog ==
    /\ nProcess < MaxLog + LogOverrun
    /\ ProcessIncomingMessage(MsgGreeting, "discord", TextFine, 1)

SpecLog == InitLog /\ [][NextLog]_vars

\* training, loading and the pipeline on one engine, after
\* set_personality_engine and enable_auto_reply(True)
InitTrain ==
    /\ auto_reply_enabled = TRUE
    /\ override_required = FALSE
    /\ current_mood = "default"
    /\ response_history = << >>
    /\ personality_engine = TRUE
    /\ safety_monitor = FALSE
    /\ trained = FALSE
    /\ sentence_model = FALSE
    /\ personality_profile = EmptyDict
    /\ style_patterns = EmptyDict
    /\ texts = << >>
    /\ embeddings = EmptyList
    /\ built_by = [profile |-> ByInit, style |-> ByInit, index |-> ByInit]
    /\ redlines = DefaultRedlines
    /\ sensitive_topics = DefaultSensitiveTopics
    /\ safety_events = << >>
    /\ consented_contacts = {}
    /\ consent_history = << >>
    /\ clock = 0
    /\ ret = NoReturn
    /\ verdict = << >>
    /\ calls = << >>
    /\ all_responses = << >>
    /\ all_events = << >>
    /\ nProcess = 0
    /\ nCheck = 0
    /\ nConsent = 0
    /\ nTrain = 0
    /\ pending = << >>
    /\ running = NoTask

NextTrain ==
    \/ \E samples \in SampleLists, loadOk \in BuildOutcomes :
          nTrain < MaxTrain /\ TrainPersonality(samples, loadOk)
    \/ \E g \in GenInputs :
          nProcess < MaxProcess /\ ProcessIncomingMessage(MsgGreeting, "discord", g[1], g[2])
    \/ \E b \in BOOLEAN : LoadModel(b)

SpecTrain == InitTrain /\ [][NextTrain]_vars

\* apply_tone on its own, on every text and tone
InitTone ==
    /\ auto_reply_enabled = FALSE
    /\ override_required = FALSE
    /\ current_mood = "default"
    /\ response_history = << >>
    /\ personality_engine = FALSE
    /\ safety_monitor = FALSE
    /\ trained = FALSE
    /\ sentence_model = FALSE
    /\ personality_profile = EmptyDict
    /\ style_patterns = EmptyDict
    /\ texts = << >>
    /\ embeddings = EmptyList
    /\ built_by = [profile |-> ByInit, style |-> ByInit, index |-> ByInit]
    /\ redlines = DefaultRedlines
    /\ sensitive_topics = DefaultSensitiveTopics
    /\ safety_events = << >>
    /\ consented_contacts = {}
    /\ consent_history = << >>
    /\ clock = 0
    /\ ret \in {[op |-> "apply_tone", response |-> x, tone |-> t, times |-> 0,
                 once |-> x, result |-> x] : x \in ToneTexts, t \in AllTones}
    /\ verdict = << >>
    /\ calls = << >>
    /\ all_responses = << >>
    /\ all_events = << >>
    /\ nProcess = 0
    /\ nCheck = 0
    /\ nConsent = 0
    /\ nTrain = 0
    /\ pending = << >>
    /\ running = NoTask

SpecTone == InitTone /\ [][ApplyTone]_vars

\* ------------------------------------------------------------------------
\* PersonalityEngine._find_similar_responses past its guard, as a function of
\* the similarities np.dot returns for the texts of the index; a similarity
\* is counted in hundredths and a text is named by its position in
\* self.texts
\* ------------------------------------------------------------------------
MaxIndex == 6
SimilarityThreshold == 30
TopCount == 5
ExampleCount == 3
SimilarityValues == {30, 31, 90}
SimilarityLists == UNION {[1..n -> SimilarityValues] : n \in 0..MaxIndex}

\* np.argsort(similarities): the positions in ascending order of similarity;
\* the default sort is not stable, equal similarities come in any order
ArgSorts(similarities) ==
    {p \in Permutations(1..Len(similarities)) :
        \A i \in 1..(Len(similarities) - 1) : similarities[p[i]] <= similarities[p[i + 1]]}

\* [-5:][::-1]: the last five positions, the last first
TopIndices(order) ==
    [i \in 1..Min(TopCount, Len(order)) |-> order[Len(order) - i + 1]]

\* of the top positions, those above the threshold, in that order
Above(similarities, top) ==
    LET Over(idx) == similarities[idx] > SimilarityThreshold
    IN  SelectSeq(top, Over)

\* similar_responses[:3], the examples of the prompt
ContextExamples(similar_responses) ==
    SubSeq(similar_responses, 1, Min(ExampleCount, Len(similar_responses)))

InitRetrieval ==
    /\ auto_reply_enabled = FALSE
    /\ override_required = FALSE
    /\ current_mood = "default"
    /\ response_history = << >>
    /\ personality_engine = FALSE
    /\ safety_monitor = FALSE
    /\ trained = FALSE
    /\ sentence_model = FALSE
    /\ personality_profile = EmptyDict
    /\ style_patterns = EmptyDict
    /\ texts = << >>
    /\ embeddings = EmptyList
    /\ built_by = [profile |-> ByInit, style |-> ByInit, index |-> ByInit]
    /\ redlines = DefaultRedlines
    /\ sensitive_topics = DefaultSensitiveTopics
    /\ safety_events = << >>
    /\ consented_contacts = {}
    /\ consent_history = << >>
    /\ clock = 0
    /\ ret \in {[op |-> "_find_similar_responses", similarities |-> s, called |-> FALSE,
                 order |-> << >>, result |-> << >>, examples |-> << >>] : s \in SimilarityLists}
    /\ verdict = << >>
    /\ calls = << >>
    /\ all_responses = << >>
    /\ all_events = << >>
    /\ nProcess = 0
    /\ nCheck = 0
    /\ nConsent = 0
    /\ nTrain = 0
    /\ pending = << >>
    /\ running = NoTask

\* one call for the similarities drawn, with one of the orders argsort may
\* return
FindSimilarResponses(order) ==
    /\ ret.op = "_find_similar_responses"
    /\ ~ret.called
    /\ ret' = [ret EXCEPT !.called = TRUE, !.order = order,
                          !.result = Above(ret.similarities, TopIndices(order)),
                          !.examples = ContextExamples(Above(ret.similarities, TopIndices(order)))]
    /\ calls' = <<"_find_similar_responses">>
    /\ verdict' = << >>
    /\ UNCHANGED <<generatorVars, trained, engineVars, monitorSettings, safety_events, consentVars,
                   clock, all_responses, all_events, counters, loopVars>>

NextRetrieval == \E order \in ArgSorts(ret.similarities) : FindSimilarResponses(order)

SpecRetrieval == InitRetrieval /\ [][NextRetrieval]_vars

\* the classifier and the tone matcher on their own
NextIntent ==
    \/ \E m \in IntentMessages : ClassifyIntent(m)
    \/ \E c \in ToneContexts, s \in ToneSenders : DetermineTone(c, s)

SpecIntent == Init /\ [][NextIntent]_vars

\* test responses in any mood
NextTest ==
    \/ \E mood \in TestMoods, g \in GenInputs :
          GenerateTestResponse(MsgGreeting.content, << >>, mood, g[1], g[2])
    \/ \E mood \in MoodInputs : SetMood(mood)
    \/ \E b \in BOOLEAN : LoadModel(b)
    \/ SetPersonalityEngine

SpecTest == Init /\ [][NextTest]_vars

\* coroutines submitted to one event loop, after set_personality_engine,
\* set_safety_monitor and enable_auto_reply(True)
InitAsync ==
    /\ auto_reply_enabled = TRUE
    /\ override_required = FALSE
    /\ current_mood = "default"
    /\ response_history = << >>
    /\ personality_engine = TRUE
    /\ safety_monitor = TRUE
    /\ trained = FALSE
    /\ sentence_model = FALSE
    /\ personality_profile = EmptyDict
    /\ style_patterns = EmptyDict
    /\ texts = << >>
    /\ embeddings = EmptyList
    /\ built_by = [profile |-> ByInit, style |-> ByInit, index |-> ByInit]
    /\ redlines = DefaultRedlines
    /\ sensitive_topics = DefaultSensitiveTopics
    /\ safety_events = << >>
    /\ consented_contacts = {}
    /\ consent_history = << >>
    /\ clock = 0
    /\ ret = NoReturn
    /\ verdict = << >>
    /\ calls = << >>
    /\ all_responses = << >>
    /\ all_events = << >>
    /\ nProcess = 0
    /\ nCheck = 0
    /\ nConsent = 0
    /\ nTrain = 0
    /\ pending = << >>
    /\ running = NoTask

NextAsync ==
    \/ \E task \in TaskInputs : Submit(task)
    \/ \E i \in 1..Len(pending) : StartProcess(i)
    \/ \E g \in GenInputs : GenerationReturns(g[1], g[2])
    \/ \E i \in 1..Len(pending) : StartTrain(i)
    \/ \E loadOk \in BOOLEAN : ModelBuilt(loadOk)
    \/ \E b \in BOOLEAN : LoadModelOnLoop(b)

SpecAsync == InitAsync /\ [][NextAsync]_vars

\* process_incoming_message coroutines on one event loop, with set_mood and
\* enable_auto_reply called between them
NextMood ==
    \/ \E m \in TaskMessages : Submit(ProcessTask(m, "discord"))
    \/ \E i \in 1..Len(pending) : StartProcess(i)
    \/ \E g \in GenInputs : GenerationReturns(g[1], g[2])
    \/ \E b \in BOOLEAN : LoadModelOnLoop(b)
    \/ \E mood \in MoodInputs : SetMoodOnLoop(mood)
    \/ \E b \in BOOLEAN : EnableAutoReplyOnLoop(b)

SpecMood == InitAsync /\ [][NextMood]_vars

\* ------------------------------------------------------------------------
\* Properties of process_incoming_message (checked under Spec)
\* ------------------------------------------------------------------------
Outcomes == {"manual_review", "manual_approval", "sent", "error"}

\* a step that is one call of process_incoming_message
ProcessStep == nProcess' = nProcess + 1

Generated(steps) == "generate" \in Range(steps)
Dispatched(steps) == "_send_response" \in Range(steps)
HistoryUnchanged == response_history' = response_history /\ all_responses' = all_responses

\* C1: while auto-reply is disabled, every call of process_incoming_message
\* (any message, platform, override flag, mood) classifies the intent and
\* returns manual_review; it invokes neither the generation nor the dispatch
\* capability and leaves the response history unchanged.
C1_AutoReplyDisabled ==
    [][(ProcessStep /\ ~auto_reply_enabled) =>
          /\ ret'.action = "manual_review"
          /\ ret'.reason = OwnReason("Auto-reply disabled", NoReason)
          /\ ret'.intent = <<intent_of[ret'.message]>>
          /\ calls'[1] = "classify_intent"
          /\ ~Generated(calls')
          /\ ~Dispatched(calls')
          /\ HistoryUnchanged]_vars

C1_Witness ==
    /\ ret.op = "process_incoming_message"
    /\ ~auto_reply_enabled
    /\ override_required
    /\ current_mood = "savage"
    /\ personality_engine /\ trained /\ safety_monitor
    /\ ret.action = "manual_review"

\* C2: with auto-reply enabled, an unsafe verdict of check_response makes
\* process_incoming_message return manual_review with the safety reason and
\* the response, whether or not the override flag is set; the dispatch
\* capability is not invoked and no HistoryEntry is appended.
C2_UnsafeVerdictVetoes ==
    [][(ProcessStep /\ auto_reply_enabled /\ verdict' # << >> /\ ~verdict'[1].safe) =>
          /\ ret'.action = "manual_review"
          /\ ret'.reason = OwnReason("Safety concern", verdict'[1].reason)
          /\ ret'.response # << >>
          /\ ~Dispatched(calls')
          /\ "_log_response" \notin Range(calls')
          /\ HistoryUnchanged]_vars

C2_Witness ==
    /\ ret.op = "process_incoming_message"
    /\ auto_reply_enabled
    /\ override_required
    /\ verdict # << >>
    /\ ~verdict[1].safe
    /\ ret.action = "manual_review"
    /\ ret.response # << >>

\* C3: with auto-reply enabled and a safe verdict, a set override flag makes
\* process_incoming_message return manual_approval with the response; the
\* dispatch capability is not invoked and no HistoryEntry is appended.
C3_OverrideHolds ==
    [][(ProcessStep /\ auto_reply_enabled /\ override_required
          /\ verdict' # << >> /\ verdict'[1].safe) =>
          /\ ret'.action = "manual_approval"
          /\ ret'.response # << >>
          /\ ret'.reason = OwnReason("", NoReason)
          /\ ~Dispatched(calls')
          /\ HistoryUnchanged]_vars

C3_Witness ==
    /\ ret.op = "process_incoming_message"
    /\ auto_reply_enabled
    /\ override_required
    /\ verdict # << >>
    /\ verdict[1].safe
    /\ ret.action = "manual_approval"

\* C4: process_incoming_message returns sent only when auto-reply was
\* enabled, the verdict was safe and the override flag was clear; on that
\* path the dispatch capability is invoked exactly once and then exactly one
\* HistoryEntry is appended; on every other outcome the response history is
\* unchanged, so the history grows by one entry exactly when the outcome is
\* sent.
C4_SentOnlyWhenSafe ==
    [][ProcessStep =>
          /\ ret'.action = "sent" =>
                /\ auto_reply_enabled
                /\ verdict' # << >>
                /\ verdict'[1].safe
                /\ ~override_required
                /\ Len(calls') >= 2
                /\ SubSeq(calls', Len(calls') - 1, Len(calls')) = <<"_send_response", "_log_response">>
                /\ Cardinality({i \in 1..Len(calls') : calls'[i] = "_send_response"}) = 1
                /\ Len(response_history') = Len(response_history) + 1
                /\ all_responses' = Append(all_responses, response_history'[Len(response_history')])
          /\ ret'.action # "sent" => HistoryUnchanged]_vars

\* C5 as stated: every call ends in one of the four outcomes, and a fault at
\* any stage yields action error (with a fault description) and leaves the
\* response history as it was.  A fault in classification shows as the
\* intent of the except branch, a fault in generation as the fallback step,
\* a fault in the safety gate as its verdict.
ClassificationFaulted(message) == intent_of[message].type = "unknown"
SafetyGateFaulted(seen) == seen = <<ErrorVerdict>>
GenerationFaulted(steps) == "_generate_fallback_response" \in Range(steps)

C5_AnyFaultYieldsError ==
    [][ProcessStep =>
          /\ ret'.action \in Outcomes
          /\ (\/ ClassificationFaulted(ret'.message)
              \/ GenerationFaulted(calls')
              \/ SafetyGateFaulted(verdict')) =>
                ret'.action = "error" /\ ret'.error # << >>
          /\ ret'.action = "error" => HistoryUnchanged]_vars

\* C5, amended: every call ends in exactly one of the four outcomes and never
\* raises.  A fault the stage itself absorbs does not yield error: a fault in
\* classification leaves the intent "unknown" and the pipeline goes on, a
\* fault of the generation call is answered with a fallback phrase, a fault
\* in the safety gate gives its unsafe error verdict and so manual_review.  Action error (with a fault description) is the outcome
\* exactly when a fault escapes its stage, which is when _generate_response
\* reads the fields of a message that is no mapping (auto-reply enabled,
\* engine attached); that call leaves the response history, the safety log,
\* the trained flag and the settings as they were.
C5_FaultsAbsorbedOrError ==
    [][ProcessStep =>
          /\ ret'.action \in Outcomes
          /\ ret'.action = "error" <=>
                (auto_reply_enabled /\ personality_engine /\ ~ret'.message.mapping)
          /\ ret'.action = "error" =>
                /\ ret'.error # << >>
                /\ HistoryUnchanged
                /\ UNCHANGED <<safety_events, all_events, trained, engineVars, monitorSettings, consentVars,
                               generatorVars>>
          /\ ret'.action # "error" => ret'.intent = <<intent_of[ret'.message]>>
          /\ GenerationFaulted(calls') =>
                /\ ret'.action # "error"
                /\ ret'.response \in {<<toned[t][tone]>> : t \in FallbackTexts, tone \in Tones}
          /\ SafetyGateFaulted(verdict') => ret'.action = "manual_review"]_vars

C5_Witness ==
    /\ ret.op = "process_incoming_message"
    /\ ret.action = "error"
    /\ ret.error # << >>
    /\ ClassificationFaulted(ret.message)

\* the faults the stages absorb, all three in one call that ends in manual_review
C5_AbsorbedReached ==
    /\ ret.op = "process_incoming_message"
    /\ ClassificationFaulted(ret.message)
    /\ GenerationFaulted(calls)
    /\ SafetyGateFaulted(verdict)
    /\ ret.action = "manual_review"

\* ------------------------------------------------------------------------
\* The bounded logs (checked under SpecLog)
\* ------------------------------------------------------------------------
\* log holds the last MaxLog entries of appended, in the order appended
HoldsLast(log, appended) ==
    /\ Len(log) = Min(Len(appended), MaxLog)
    /\ \A i \in 1..Len(log) : log[i] = appended[Len(appended) - Len(log) + i]

\* C6: the response history and the safety-event log never hold more than
\* 1000 entries, and after N > 1000 appends with no clear in between each
\* holds exactly the last 1000 appended entries, in insertion order.
C6_LogsHoldLast1000 ==
    /\ Len(response_history) <= MaxLog
    /\ Len(safety_events) <= MaxLog
    /\ HoldsLast(response_history, all_responses)
    /\ HoldsLast(safety_events, all_events)

C6_Witness ==
    /\ Len(all_responses) > MaxLog
    /\ Len(all_events) > MaxLog
    /\ Len(response_history) = MaxLog
    /\ Len(safety_events) = MaxLog
    /\ response_history[1] # all_responses[1]

\* ------------------------------------------------------------------------
\* Properties of the safety monitor (checked under SpecSafety)
\* ------------------------------------------------------------------------
\* the checks, by position in CheckOrder, that fail on this response and message
FailedChecks(response, message) ==
    {i \in 1..Len(CheckOrder) : ~RunCheck(CheckOrder[i], response, message).ok}

Last(S) == CHOOSE i \in S : \A j \in S : j <= i

\* the reason check_response words from the result of one check
ReasonOf(check, response, message) ==
    [prefix |-> ReasonPrefix(check),
     text |-> RunCheck(check, response, message).text,
     terms |-> RunCheck(check, response, message).terms]

\* the names in CheckOrder at the positions S, in order
RECURSIVE NamesFrom(_, _)
NamesFrom(i, S) ==
    IF i > Len(CheckOrder) THEN << >>
    ELSE (IF i \in S THEN <<CheckOrder[i]>> ELSE << >>) \o NamesFrom(i + 1, S)

\* C7: every invocation of check_response runs the four checks in the order
\* redlines, content filter, consent, relationship-risk, whatever the earlier
\* ones found; the reported reason is that of the last check in this order
\* that failed, and is empty when none failed.
C7_AllChecksLastReasonWins ==
    ret.op = "check_response" =>
        /\ Len(calls) >= Len(CheckOrder)
        /\ SubSeq(calls, 1, Len(CheckOrder)) = CheckOrder
        /\ LET failed == FailedChecks(ret.response, ret.message)
           IN  IF failed = {}
               THEN ret.verdict.reason = NoReason
               ELSE ret.verdict.reason =
                        ReasonOf(CheckOrder[Last(failed)], ret.response, ret.message)

\* C8: every invocation of check_response, whatever its verdict and also
\* when a check or the logging step faults, appends exactly one
\* SafetyEventEntry to the safety-event log.
C8_EveryCheckLogsOneEvent ==
    [][(nCheck' = nCheck + 1 /\ ret'.op = "check_response") =>
          /\ Len(all_events') = Len(all_events) + 1
          /\ Len(safety_events') = Min(Len(safety_events) + 1, MaxLog)
          /\ safety_events'[Len(safety_events')].response = ret'.response]_vars

\* C9: the verdict of check_response is safe exactly when none of the four
\* checks failed, and its flags are the names of the checks that failed, in
\* check order, each once; a response that fails the redline check is unsafe
\* whatever the other three checks find.
C9_SafeIffNoCheckFailed ==
    ret.op = "check_response" =>
        LET failed == FailedChecks(ret.response, ret.message)
        IN  /\ ret.verdict.safe <=> failed = {}
            /\ ret.verdict.flags = NamesFrom(1, failed)
            /\ 1 \in failed => ~ret.verdict.safe

\* C10: check_consent answers consented exactly when the sender is in the
\* opt-in set or the platform of the message is one of the default-allowed
\* platforms, and never for a message whose sender is empty or missing,
\* after any sequence of add_consent and remove_consent calls.
C10_ConsentRule ==
    ret.op = "check_consent" =>
        LET sender   == GetStr(ret.message.sender, "")
            platform == GetStr(ret.message.platform, "")
        IN  IF sender = ""
            THEN ~ret.result.ok
            ELSE ret.result.ok <=>
                    (sender \in consented_contacts \/ platform \in AllowedPlatforms)

\* ------------------------------------------------------------------------
\* Properties of set_mood (checked under Spec)
\* ------------------------------------------------------------------------
\* C11: after any sequence of set_mood calls current_mood is one of the six
\* valid moods; a call with a valid value makes it the current mood, a call
\* with any other string resets the current mood to default, whatever the
\* mood was before, and returns normally.
C11_MoodAlwaysValid ==
    /\ current_mood \in ValidMoods
    /\ ret.op = "set_mood" =>
          /\ ret.mood \in ValidMoods => current_mood = ret.mood
          /\ ret.mood \notin ValidMoods => current_mood = "default"

C11_Witness ==
    /\ ret.op = "set_mood"
    /\ ret.mood = "bogus"
    /\ ret.previous = "savage"
    /\ current_mood = "default"

\* ------------------------------------------------------------------------
\* Properties of training (checked under SpecTrain)
\* ------------------------------------------------------------------------
\* a step that is one call of train_personality
TrainStep == nTrain' = nTrain + 1

\* C12: training on an empty sample list leaves the profile and the style
\* patterns empty default structures and leaves the trained flag false; the
\* call of process_incoming_message that follows (auto-reply enabled, engine
\* attached) returns the "still learning" placeholder and does not invoke
\* the generation capability.
C12_EmptyTrainingStaysUntrained ==
    [][/\ (TrainStep /\ ret'.samples = << >> /\ ~trained) =>
             /\ personality_profile' \in {EmptyDict, DefaultTraits}
             /\ style_patterns' \in {EmptyDict, DefaultPatterns}
             /\ ~trained'
       /\ (/\ ret.op = "train_personality" /\ ret.samples = << >> /\ ~ret.before.trained
           /\ ProcessStep /\ auto_reply_enabled /\ personality_engine) =>
             /\ ret'.response \in {<<toned[NotTrainedText][tone]>> : tone \in Tones}
             /\ ~Generated(calls')]_vars

\* C13: a training run is atomic.  When train_personality fails at any step
\* the profile, the style patterns, the embedding index and the trained flag
\* keep the values they had before the run; when it succeeds they are all
\* replaced together by what the run built from its samples.
C13_TrainingAtomic ==
    [][TrainStep =>
          /\ ~ret'.success =>
                UNCHANGED <<personality_profile, style_patterns, texts, embeddings, trained>>
          /\ ret'.success =>
                /\ personality_profile' = DefaultTraits
                /\ style_patterns' = DefaultPatterns
                /\ texts' = KeptTexts(ret'.samples)
                /\ Len(embeddings'.rows) = Len(texts')
                /\ trained']_vars

MixedState ==
    /\ \E f \in DOMAIN built_by : built_by[f].by = "train_personality"
    /\ \E f, g \in DOMAIN built_by : built_by[f] # built_by[g]

AppendedOne(old, new) ==
    /\ Len(new) = Min(Len(old) + 1, MaxLog)
    /\ \A i \in 1..(Len(new) - 1) : new[i] = old[i + Len(old) + 1 - Len(new)]
    /\ new[Len(new)] \notin Range(old)

\* C16: whatever the order in which the event loop runs the coroutines that
\* were submitted together, appends to the response history and to the
\* safety-event log take effect one at a time: each call appends at most one
\* entry to each log, after those that were there, none is lost or appears
\* twice, and each log is the last min(N, 1000) of the entries appended in
\* the order the appends took effect.
C16_AppendsSerialized ==
    [][/\ HoldsLast(response_history', all_responses')
       /\ HoldsLast(safety_events', all_events')
       /\ IF ProcessStep
          THEN /\ IF ret'.action = "sent"
                  THEN /\ AppendedOne(response_history, response_history')
                       /\ <<response_history'[Len(response_history')].response>> = ret'.response
                  ELSE response_history' = response_history
               /\ IF verdict' # << >>
                  THEN AppendedOne(safety_events, safety_events')
                  ELSE safety_events' = safety_events
          ELSE UNCHANGED <<response_history, safety_events>>]_vars

\* two calls have appended to both logs while a third coroutine waited
C16_Witness ==
    /\ Len(response_history) = 2
    /\ Len(safety_events) = 2
    /\ pending # << >>

\* C17: the generation call does not block the other invocations: while one
\* call of process_incoming_message waits inside its generation call, a
\* coroutine that was submitted with it can be started and advance (classify
\* and return) before that generation call completes.
C17_OthersAdvanceDuringGeneration ==
    (running.kind = "process" /\ pending # << >>) =>
        ENABLED (\E i \in 1..Len(pending) : StartProcess(i) \/ StartTrain(i))

\* ------------------------------------------------------------------------
\* Properties of the fallback response (checked under Spec)
\* ------------------------------------------------------------------------
\* C18: when the generation call fails for a trained engine, the call of
\* process_incoming_message is not aborted and does not end in error: the
\* response is one phrase of the canned table of the current mood, tone
\* adjusted; the safety gate runs when a monitor is attached, and the
\* dispatch decision is taken as for any other response.
C18_GenerationFailureFallsBack ==
    [][(ProcessStep /\ GenerationFaulted(calls')) =>
          /\ trained
          /\ ret'.action \in Outcomes \ {"error"}
          /\ ret'.response \in
                {<<apply_tone(t, tone)>> : t \in Range(FallbackTable(current_mood)),
                                           tone \in Tones}
          /\ safety_monitor <=> verdict' # << >>
          /\ ret'.action = "manual_review" <=> (safety_monitor /\ ~verdict'[1].safe)
          /\ ret'.action = "manual_approval" <=>
                (override_required /\ (safety_monitor => verdict'[1].safe))
          /\ ret'.action = "sent" <=>
                (~override_required /\ (safety_monitor => verdict'[1].safe))
          /\ ret'.action = "sent" <=> Dispatched(calls')]_vars

\* the generation call has failed in mood savage and the gate has run on the
\* phrase
C18_Witness ==
    /\ ret.op = "process_incoming_message"
    /\ GenerationFaulted(calls)
    /\ current_mood = "savage"
    /\ verdict # << >>
    /\ ret.response \in {<<apply_tone(t, tone)>> : t \in Range(fallback_savage), tone \in Tones}

\* ------------------------------------------------------------------------
\* Properties of generate_test_response (checked under SpecTest)
\* ------------------------------------------------------------------------
\* C19: when generate_response is given a mood outside the six valid moods
\* (through generate_test_response, which does not go through set_mood), it
\* builds the prompt it builds for mood default, takes its fallback phrase
\* from the default table, and flags the unrecognized mood to the caller.
C19_UnrecognizedMoodAsDefault ==
    (ret.op = "generate_test_response" /\ ret.used \notin ValidMoods /\ Generated(calls)) =>
        /\ ret.prompt = <<_build_personality_prompt("default")>>
        /\ GenerationFaulted(calls) => ret.response \in Range(fallback_default)
        /\ ret.flags # << >>

\* ------------------------------------------------------------------------
\* Properties of apply_tone (checked under SpecTone)
\* ------------------------------------------------------------------------
\* C20: apply_tone is idempotent: for every text x and every tone t of
\* friendly, helpful, professional, empathetic, urgent, casual, neutral and
\* formal, apply_tone(apply_tone(x, t), t) = apply_tone(x, t).
C20_ApplyToneIdempotent ==
    (ret.op = "apply_tone" /\ ret.times >= 2) => ret.result = ret.once

\* the tone professional has been applied twice to a text in which removing
\* "lol" leaves another "lol"
C20_Witness ==
    /\ ret.op = "apply_tone" /\ ret.times = 2
    /\ ret.tone = "professional"
    /\ ret.response = <<"l","l","o","l","o","l">>

\* C21: apply_tone performs the edit of each tone: urgent appends "!" to a
\* text that holds none, friendly appends one of its emoji to a text that
\* holds none, professional removes "lol", casual replaces "Hello" by "Hey"
\* and "Thank you" by "Thanks", neutral returns the text unchanged.
C21_ApplyToneEdits ==
    (ret.op = "apply_tone" /\ ret.times >= 1) =>
        /\ (ret.tone = "urgent" /\ ~Contains(ret.response, <<"!">>)) =>
              ret.once = ret.response \o <<"!">>
        /\ (ret.tone = "friendly"
              /\ \A i \in 1..Len(ret.response) :
                    ret.response[i] \notin {"<blush>", "<heart>", "<thumbsup>"}) =>
              \E i \in 1..Len(ret.once) : ret.once[i] \in {"<blush>", "<heart>", "<thumbsup>"}
        /\ ret.tone = "professional" => ~Contains(ret.once, <<"l","o","l">>)
        /\ ret.tone = "casual" =>
              /\ ~Contains(ret.once, <<"H","e","l","l","o">>)
              /\ ~Contains(ret.once, <<"T","h","a","n","k"," ","y","o","u">>)
        /\ ret.tone = "neutral" => ret.once = ret.response

\* ------------------------------------------------------------------------
\* Properties of the redline settings (checked under SpecRedline)
\* ------------------------------------------------------------------------
\* a step that is one call of check_response
CheckStep == nCheck' = nCheck + 1 /\ ret'.op = "check_response"

\* C22: after add_redline(t), every response that contains t, whatever the
\* case of its letters, gets an unsafe verdict with the flag redline; after
\* remove_redline(t) the term t alone no longer makes the redline check
\* fail.  add_sensitive_topic changes no verdict.
C22_RedlineTermsDecide ==
    [][/\ ret'.op = "add_redline" => LowerText(ret'.term) \in redlines'
       /\ ret'.op = "remove_redline" => LowerText(ret'.term) \notin redlines'
       /\ CheckStep =>
             /\ (\E t \in redlines : Contains(LowerText(ret'.response), t)) =>
                   /\ ~ret'.verdict.safe
                   /\ "redline" \in Range(ret'.verdict.flags)
             /\ "redline" \in Range(ret'.verdict.flags) =>
                   \/ \E t \in redlines : Contains(LowerText(ret'.response), t)
                   \/ personal_info_found[ret'.response]
       /\ ret'.op = "add_sensitive_topic" =>
             \A r \in Responses, m \in CheckedMessages :
                check_response(r, m).verdict' = check_response(r, m).verdict]_vars

\* ------------------------------------------------------------------------
\* C23: for a message that is a mapping with text content, classify_intent
\* returns the count of matching patterns of every category as scores, as
\* type the first category in declaration order that carries the largest
\* count, and as confidence min(largest count / 3, 1); every message with
\* the same content gets the same scores and type; content that matches no
\* pattern gets type greeting with confidence 0.
\* ------------------------------------------------------------------------
C23_MaxCountFirstWins ==
    (/\ ret.op = "classify_intent"
     /\ ret.message.mapping
     /\ GetText(ret.message.content, << >>) # NoneValue) =>
        /\ ret.result.scores =
               [c \in Range(IntentOrder) |->
                    IntentScore(c, GetText(ret.message.content, << >>))]
        /\ \E i \in 1..Len(IntentOrder) :
              /\ ret.result.type = IntentOrder[i]
              /\ \A j \in 1..Len(IntentOrder) :
                    ret.result.scores[IntentOrder[j]] <= ret.result.scores[IntentOrder[i]]
              /\ \A j \in 1..(i - 1) :
                    ret.result.scores[IntentOrder[j]] < ret.result.scores[IntentOrder[i]]
        /\ ret.result.confidence.den = 3
        /\ ret.result.confidence.num =
               IF ret.result.scores[ret.result.type] < 3
               THEN ret.result.scores[ret.result.type] ELSE 3
        /\ \A m \in IntentMessages :
              (m.mapping /\ m.content = ret.message.content) =>
                  /\ classified[m].scores = ret.result.scores
                  /\ classified[m].type = ret.result.type
        /\ (\A c \in Range(IntentOrder) : ret.result.scores[c] = 0) =>
              ret.result.type = "greeting" /\ ret.result.confidence.num = 0

\* a tie between question and request was decided for question, the earlier
C23_Witness ==
    /\ ret.op = "classify_intent"
    /\ ret.result.type = "question"
    /\ ret.result.scores["question"] > 0
    /\ ret.result.scores["request"] = ret.result.scores["question"]

\* content that matches no pattern was classified
C23_WitnessNoMatch ==
    /\ ret.op = "classify_intent"
    /\ ret.message.mapping
    /\ ret.message.content = <<"z","z">>
    /\ ret.result.type = "greeting"

\* ------------------------------------------------------------------------
\* C24: classify_intent does not raise.  A call of process_incoming_message
\* with a message that is no mapping, or whose content is None, gets past the
\* classification: classify_intent is its first step, the intent it carries on
\* is type unknown with confidence 0, empty scores and empty context, and
\* with auto-reply enabled the call goes on to _generate_response, where the
\* tone for that intent is neutral.  Where such a call does end in error, the
\* error comes from _generate_response reading a message that is no mapping.
\* ------------------------------------------------------------------------
C24_ClassificationFaultAbsorbed ==
    [][(/\ ProcessStep
        /\ \/ ~ret'.message.mapping
           \/ GetText(ret'.message.content, << >>) = NoneValue) =>
          /\ calls'[1] = "classify_intent"
          /\ ret'.action # "error" =>
                /\ ret'.intent = <<UnknownIntent>>
                /\ ret'.intent[1].type = "unknown"
                /\ ret'.intent[1].confidence.num = 0
                /\ DOMAIN ret'.intent[1].scores = {}
                /\ DOMAIN ret'.intent[1].context = {}
          /\ auto_reply_enabled => Len(calls') >= 2 /\ calls'[2] = "_generate_response"
          /\ ret'.action = "error" =>
                ~ret'.message.mapping /\ personality_engine /\ auto_reply_enabled
          /\ ret'.message.mapping =>
                determine_tone(intent_of[ret'.message],
                               GetText(ret'.message.context, << >>),
                               GetStr(ret'.message.sender, "")) = "neutral"]_vars

\* a message with content None went through generation and was sent
C24_Witness ==
    /\ ret.op = "process_incoming_message"
    /\ ret.message = MsgNoneContent
    /\ ret.action = "sent"
    /\ ret.intent = <<UnknownIntent>>
    /\ "_generate_response" \in Range(calls)

\* ------------------------------------------------------------------------
\* C25: for a context that is text, determine_tone returns professional for
\* the sender boss, manager or supervisor and casual for the sender friend,
\* family or close, whatever the context and the intent; for any other
\* sender, professional when the context contains work or business,
\* otherwise friendly when it contains friend or family, whatever the
\* intent; and when neither the sender nor the context matches, the tone of
\* the intent type: greeting friendly, question helpful, request
\* professional, complaint empathetic, urgent urgent, casual casual, any
\* other type neutral.
\* ------------------------------------------------------------------------
SenderFormal == ret.sender \in {"boss", "manager", "supervisor"}
SenderClose == ret.sender \in {"friend", "family", "close"}
ContextWork ==
    \/ Contains(LowerText(ret.context), <<"w","o","r","k">>)
    \/ Contains(LowerText(ret.context), <<"b","u","s","i","n","e","s","s">>)
ContextFriends ==
    \/ Contains(LowerText(ret.context), <<"f","r","i","e","n","d">>)
    \/ Contains(LowerText(ret.context), <<"f","a","m","i","l","y">>)
BaseTone ==
    [greeting |-> "friendly", question |-> "helpful", request |-> "professional",
     complaint |-> "empathetic", urgent |-> "urgent", casual |-> "casual"]

C25_TonePrecedence ==
    (ret.op = "determine_tone" /\ ret.context # NoneValue) =>
        /\ SenderFormal => ret.tone = "professional"
        /\ SenderClose => ret.tone = "casual"
        /\ (~SenderFormal /\ ~SenderClose) =>
              /\ ContextWork => ret.tone = "professional"
              /\ (~ContextWork /\ ContextFriends) => ret.tone = "friendly"
              /\ (~ContextWork /\ ~ContextFriends) =>
                    ret.tone = IF ret.intent.type \in DOMAIN BaseTone
                               THEN BaseTone[ret.intent.type] ELSE "neutral"

\* the sender friend decided against a work context and a question
C25_Witness ==
    /\ ret.op = "determine_tone"
    /\ ret.sender = "friend"
    /\ ret.context = <<"W","o","r","k"," ","c","h","a","t">>
    /\ ret.intent.type = "question"
    /\ ret.tone = "casual"

NoGate == ProcessStep /\ ~safety_monitor /\ auto_reply_enabled /\ ~override_required
SentUnchecked ==
    /\ ret'.action = "sent"
    /\ verdict' = << >>
    /\ "check_response" \notin Range(calls')
    /\ safety_events' = safety_events
    /\ all_events' = all_events
    /\ Len(all_responses') = Len(all_responses) + 1
    /\ all_responses'[Len(all_responses')].original_message = ret'.message
    /\ response_history'[Len(response_history')] = all_responses'[Len(all_responses')]

C27_NoMonitorEverythingSent == [][NoGate => SentUnchecked]_vars

\* C27, amended: the same for every call that does not end in error; a call
\* ends in error only for a message that is no mapping while an engine is
\* attached, and then it too computes no verdict and logs nothing.
C27_NoMonitorSentOrError ==
    [][NoGate =>
          \/ SentUnchecked
          \/ /\ ret'.action = "error"
             /\ ~ret'.message.mapping
             /\ personality_engine
             /\ verdict' = << >>
             /\ "check_response" \notin Range(calls')
             /\ safety_events' = safety_events
             /\ HistoryUnchanged]_vars

\* a message was sent and logged with no monitor attached and no verdict
C27_Witness ==
    /\ ret.op = "process_incoming_message"
    /\ ret.action = "sent"
    /\ ~safety_monitor
    /\ verdict = << >>
    /\ safety_events = << >>
    /\ Len(response_history) = 1
    /\ response_history[1].original_message = ret.message

\* ------------------------------------------------------------------------
\* C28: when a step inside check_response raises (in the code: the logging
\* step, on a message that is no mapping or has no text content), the verdict
\* is the one of the except branch, safe = false with flags [error]; a call
\* of process_incoming_message that gets that verdict returns manual_review,
\* dispatches nothing and leaves the response history as it was.  A content
\* filter called with a content that is no text answers unsafe, and a consent
\* check called with a message that is no mapping answers not consented.
\* ------------------------------------------------------------------------
GateStep == ProcessStep /\ "check_response" \in Range(calls')
FilterStep == nCheck' = nCheck + 1

C28_GateFailsClosed ==
    [][/\ (GateStep /\ LogEventRaises(ret'.message)) => verdict' = <<ErrorVerdict>>
       /\ (GateStep /\ verdict' = <<ErrorVerdict>>) =>
             /\ ~verdict'[1].safe
             /\ verdict'[1].flags = <<"error">>
             /\ ret'.action = "manual_review"
             /\ ~Dispatched(calls')
             /\ HistoryUnchanged
       /\ (FilterStep /\ ret'.op = "check_content" /\ ret'.content = NoneValue) =>
             ~ret'.result.ok
       /\ (FilterStep /\ ret'.op = "check_consent" /\ ~ret'.message.mapping) =>
             ~ret'.result.ok]_vars

\* with the override clear, a response that passes every check was held back
\* because the logging step raised
C28_Witness ==
    /\ ret.op = "process_incoming_message"
    /\ ret.message = MsgNoneContent
    /\ ~override_required
    /\ verdict = <<ErrorVerdict>>
    /\ ret.action = "manual_review"
    /\ ret.response = <<TextFine>>

\* the content filter was called with None
C28_WitnessFilter == ret.op = "check_content" /\ ret.content = NoneValue /\ ~ret.result.ok

\* ------------------------------------------------------------------------
\* C29: after every call the opt-in set is the set of senders whose latest
\* record in the consent history is consent_granted; every step keeps the
\* records there were, unchanged and in place; every call of add_consent and
\* of remove_consent appends exactly one record, remove_consent also for a
\* sender that is not opted in.
\* ------------------------------------------------------------------------
GrantedLast(history) ==
    {history[i].sender :
        i \in {i \in 1..Len(history) :
                  /\ history[i].action = "consent_granted"
                  /\ \A j \in (i + 1)..Len(history) : history[j].sender # history[i].sender}}
ConsentStep == nConsent' = nConsent + 1

C29_OptInFollowsAuditTrail ==
    [][/\ consented_contacts' = GrantedLast(consent_history')
       /\ Len(consent_history') >= Len(consent_history)
       /\ SubSeq(consent_history', 1, Len(consent_history)) = consent_history
       /\ ConsentStep =>
             /\ Len(consent_history') = Len(consent_history) + 1
             /\ consent_history'[Len(consent_history')].action
                    \in {"consent_granted", "consent_revoked"}
       /\ ~ConsentStep => consent_history' = consent_history]_vars

\* a revocation for a sender that never opted in was recorded after a grant
\* for another sender
C29_Witness ==
    /\ Len(consent_history) = 2
    /\ consent_history[1].action = "consent_granted"
    /\ consent_history[1].sender = "alice"
    /\ consent_history[2].action = "consent_revoked"
    /\ consent_history[2].sender = ""
    /\ consented_contacts = {"alice"}

\* ------------------------------------------------------------------------
\* C30: however calls of set_mood and enable_auto_reply are placed among
\* process_incoming_message coroutines on one event loop, the HistoryEntry a
\* call appends carries the mood the call passed to generate_response (for a
\* call that was inside the generation call: the mood it had read before)
\* and auto_reply = true, and every entry of the history has auto_reply =
\* true.
\* ------------------------------------------------------------------------
EntryAppended == ProcessStep /\ Len(all_responses') = Len(all_responses) + 1

C30_EntryRecordsMoodUsed ==
    [][/\ EntryAppended =>
             /\ all_responses'[Len(all_responses')].auto_reply
             /\ all_responses'[Len(all_responses')].mood =
                    IF running = NoTask THEN current_mood ELSE running.mood
             /\ running # NoTask => running.auto_reply
       /\ \A i \in 1..Len(response_history') : response_history'[i].auto_reply]_vars

\* a response generated in the mood savage was logged after the mood had
\* been set while its coroutine was waiting to be started
C30_Witness ==
    /\ ret.op = "process_incoming_message"
    /\ ret.action = "sent"
    /\ Generated(calls)
    /\ response_history # << >>
    /\ response_history[Len(response_history)].mood = "savage"
    /\ current_mood = "savage"

====
